---- MODULE Spec2Model ----
(***************************************************************************)
(* PDP-11/70 I/O page and disk subsystem (iopage.js): the block cache and  *)
(* fetcher, the transfer engine diskIO, the RK11, RL11, RP11, TM11 and PTR *)
(* controllers, the deferred tasks (setTimeout, interrupt queue) and the   *)
(* global reset.  Handlers are operators over a record s holding the whole *)
(* program state; an action applies one handler and commits the result.    *)
(***************************************************************************)
EXTENDS Integers, Sequences, FiniteSets, TLC

VARIABLES rk11, rl11, rp11, tm11, ptr11, kw11, lp11, DL11, CPU,
          meta, mem, timers, inflight, last, nops, nfetch, active

vars == <<rk11, rl11, rp11, tm11, ptr11, kw11, lp11, DL11, CPU,
          meta, mem, timers, inflight, last, nops, nfetch, active>>

(***************************************************************************)
(* Bounds of the model.                                                    *)
(***************************************************************************)
\* words per cache block (the block size is kept even, as in the source)
BlockWords == 2
\* words of emulated physical memory; accesses beyond it are NXM
MemWords == 4
\* guest accesses (register accesses and RESETs) per behaviour
MaxOps == 3
\* completions of block requests per behaviour
MaxFetches == 3
\* highest block index a block request asks for when extractXHR is driven
\* on its own
MaxBlock == 1
\* transfers per behaviour when diskIO is driven on its own
MaxXfers == 2
\* words of memory where whole sectors are transferred
SectorMemWords == 258
\* register writes of the guest in a seek-then-read sequence
MaxSeekOps == 5
\* accesses of the guest when the registers are read and written on their own
MaxRegOps == 2
\* transfers per behaviour when diskIO runs off the end of memory
MaxNxmXfers == 1
\* accesses of the guest when the tape is spaced forward and back
MaxSpaceOps == 4

IO_BLOCKSIZE == 2 * BlockWords

(***************************************************************************)
(* JavaScript integer arithmetic.                                          *)
(***************************************************************************)
RECURSIVE And(_, _)
And(a, b) == IF a = 0 \/ b = 0 THEN 0
             ELSE (a % 2) * (b % 2) + 2 * And(a \div 2, b \div 2)

Or(a, b) == a + b - And(a, b)

Xor(a, b) == a + b - 2 * And(a, b)

\* a & ~m
Clr(a, m) == a - And(a, m)

Shr(a, n) == a \div (2 ^ n)

\* (a >>> lo) & (2^n - 1): a bit field of a 32-bit value, negative or not
Bits(a, lo, n) == (a \div (2 ^ lo)) % (2 ^ n)

\* ~~(a / b) for b > 0: the quotient truncated toward zero
Trunc(a, b) == IF a >= 0 THEN a \div b ELSE -((-a) \div b)

\* a % b of JavaScript: the remainder takes the sign of the dividend
Rem(a, b) == a - b * Trunc(a, b)

\* x & ~1 on a 32-bit signed value
Even32(x) == x - (x % 2)

\* x > 0x80000000
Above31(x) == (x \div 2) > 1073741824 \/ ((x \div 2) = 1073741824 /\ x % 2 = 1)

\* (hi << 16) | lo as a 32-bit signed value, hi and lo being 16-bit
Word32(hi, lo) == IF hi >= 32768 THEN (hi - 65536) * 65536 + lo
                  ELSE hi * 65536 + lo

(***************************************************************************)
(* Trace of the calls made inside one handler: <<name, device, unit, a, b>>*)
(***************************************************************************)
Ev(s, name, m, a, b) == [s EXCEPT !.tr = Append(@, <<name, m[1], m[2], a, b>>)]

NoUnit == <<"-", 0>>

Names(tr) == {tr[i][1] : i \in DOMAIN tr}

Count(tr, name) == Cardinality({i \in DOMAIN tr : tr[i][1] = name})

(***************************************************************************)
(* Collaborators of the I/O page (CPU core): memory, trap, panic and the   *)
(* interrupt queue.                                                        *)
(***************************************************************************)
readWordByPhysical(s, pa) ==
    IF pa >= 0 /\ (pa \div 2) \in DOMAIN s.mem THEN s.mem[pa \div 2] ELSE -1

writeWordByPhysical(s, pa, data) ==
    IF pa >= 0 /\ (pa \div 2) \in DOMAIN s.mem
    THEN [s EXCEPT !.mem[pa \div 2] = data, !.res = 0]
    ELSE [s EXCEPT !.res = -1]

writeByteByPhysical(s, pa, data) ==
    IF pa >= 0 /\ (pa \div 2) \in DOMAIN s.mem
    THEN LET w == s.mem[pa \div 2]
         IN [s EXCEPT !.mem[pa \div 2] =
                         IF pa % 2 = 1 THEN (w % 256) + 256 * data
                                       ELSE (w - (w % 256)) + data,
                      !.res = 0]
    ELSE [s EXCEPT !.res = -1]

trap(s, vector, code) == [Ev(s, "trap", NoUnit, vector, code) EXCEPT !.res = -1]

panic(s) == Ev(s, "panic", NoUnit, 0, 0)

\* interrupt(delay, priority, vector, unit, callback, callarg): a negative
\* delay cancels the entries pending at the vector (of every unit when unit
\* is negative); otherwise the request is queued.
interrupt(s, delay, priority, vector, unit, callback, callarg) ==
    IF delay < 0
    THEN [s EXCEPT !.CPU.interruptQueue =
             {e \in @ : ~(e.vector = vector /\ (unit < 0 \/ e.unit = unit))}]
    ELSE [s EXCEPT !.CPU.interruptQueue =
             @ \cup {[vector |-> vector, priority |-> priority, unit |-> unit,
                      callback |-> callback, callarg |-> callarg]}]

IOBASE_22BIT == \o17760000

mapUnibus(s, unibusAddress) ==
    LET idx == Shr(unibusAddress, 13) % 32
    IN IF idx < 31
       THEN IF And(s.CPU.MMR3, \h20) # 0
            THEN (s.CPU.unibusMap[idx] + (unibusAddress % 8192)) % 4194304
            ELSE unibusAddress
       ELSE Or(unibusAddress, IOBASE_22BIT)

(***************************************************************************)
(* Drive metadata and the block cache.                                     *)
(***************************************************************************)
\* crossing and stale are history fields: the request was issued after the
\* loop had moved data in a present block; a RESET came while it was in flight
NoXhr == [st |-> "undefined", operation |-> 0, position |-> 0,
          address |-> 0, count |-> 0, crossing |-> FALSE, stale |-> FALSE]

NewMeta(mapped) == [cache |-> << >>, mapped |-> mapped, position |-> 0,
                    command |-> 0, xhr |-> NoXhr]

EnsureMeta(s, m, mapped) ==
    IF m \in DOMAIN s.meta THEN s
    ELSE [s EXCEPT !.meta = @ @@ (m :> NewMeta(mapped)),
                   !.inflight = @ @@ (m :> 0)]

ZeroBlock == [i \in 1..IO_BLOCKSIZE |-> 0]

CacheGet(c, block, offset) ==
    IF block \in DOMAIN c /\ offset >= 0 /\ offset < IO_BLOCKSIZE
    THEN c[block][offset + 1] ELSE 0

\* a store that misses the odd offsets of a block
CachePut_even(c, block, offset, v) ==
    IF block \in DOMAIN c /\ offset >= 0 /\ offset < IO_BLOCKSIZE /\ offset % 2 = 0
    THEN [c EXCEPT ![block][offset + 1] = v] ELSE c

CachePut(c, block, offset, v) ==
    IF block \in DOMAIN c /\ offset >= 0 /\ offset < IO_BLOCKSIZE
    THEN [c EXCEPT ![block][offset + 1] = v] ELSE c

\* the cache word taken high byte first
CacheWord_swapped(c, block, offset) ==
    CacheGet(c, block, offset) * 256 + CacheGet(c, block, offset + 1)

CacheWord(c, block, offset) ==
    CacheGet(c, block, offset + 1) * 256 + CacheGet(c, block, offset)

\* the copy loop of extractXHR for one absent block
FilledBlock(resp, dataIndex) ==
    [i \in 1..IO_BLOCKSIZE |->
        IF dataIndex + i <= Len(resp) THEN resp[dataIndex + i] % 256 ELSE 0]

\* the loop without the test for an existing block
RECURSIVE extractLoop_overwrite(_, _, _, _)
extractLoop_overwrite(cache, resp, block, dataIndex) ==
    LET cache1  == [b \in DOMAIN cache \cup {block} |->
                      IF b = block THEN FilledBlock(resp, dataIndex) ELSE cache[b]]
        copied  == IF Len(resp) - dataIndex < IO_BLOCKSIZE
                   THEN (IF Len(resp) > dataIndex THEN Len(resp) - dataIndex ELSE 0)
                   ELSE IO_BLOCKSIZE
        index1  == dataIndex + copied
    IN IF index1 < Len(resp)
       THEN extractLoop_overwrite(cache1, resp, block + 1, index1)
       ELSE cache1

RECURSIVE extractLoop(_, _, _, _)
extractLoop(cache, resp, block, dataIndex) ==
    LET absent  == block \notin DOMAIN cache
        cache1  == IF absent THEN cache @@ (block :> FilledBlock(resp, dataIndex))
                   ELSE cache
        copied  == IF Len(resp) - dataIndex < IO_BLOCKSIZE
                   THEN (IF Len(resp) > dataIndex THEN Len(resp) - dataIndex ELSE 0)
                   ELSE IO_BLOCKSIZE
        index1  == IF absent THEN dataIndex + copied
                   ELSE dataIndex + IO_BLOCKSIZE
    IN IF index1 < Len(resp) THEN extractLoop(cache1, resp, block + 1, index1)
       ELSE cache1

\* extractXHR that installs a whole-file response at the requested block
extractXHR_at(status, resp, cache, block) ==
    CASE status = 416 -> [r |-> 0, cache |-> extractLoop(cache, << >>, block, 0)]
      [] status \in {0, 200, 206} ->
                         [r |-> 0, cache |-> extractLoop(cache, resp, block, 0)]
      [] OTHER -> [r |-> -1, cache |-> cache]

\* extractXHR(xhr, cache, block): [r |-> 0 or -1, cache |-> the cache after]
extractXHR(status, resp, cache, block) ==
    CASE status = 416 -> [r |-> 0, cache |-> extractLoop(cache, << >>, block, 0)]
      [] status = 200 -> [r |-> 0, cache |-> extractLoop(cache, resp, 0, 0)]
      [] status \in {0, 206} ->
                         [r |-> 0, cache |-> extractLoop(cache, resp, block, 0)]
      [] OTHER -> [r |-> -1, cache |-> cache]

(***************************************************************************)
(* Completion routines of the controllers.                                 *)
(***************************************************************************)
RECURSIVE diskIO(_, _, _, _, _, _)

RK_TRACKS == <<406, 406, 406, 406, 406, 406, 406, 0>>
RK_SECTORS == <<12, 12, 12, 12, 12, 12, 12, 12>>

rk11_init(s) ==
    [s EXCEPT !.rk11.rkds = \o4700, !.rk11.rker = 0, !.rk11.rkcs = \o200,
              !.rk11.rkwc = 0, !.rk11.rkba = 0, !.rk11.rkda = 0]

rk11_seekEnd(s, drive) ==
    [s EXCEPT !.rk11.rkds = Or(drive * 8192, And(@, \h1FF0)),
              !.rk11.rkcs = Or(@, \h2000)]

\* a command end that leaves the controller busy
rk11_commandEnd_busy(s, drive) ==
    [s EXCEPT !.rk11.rkds = Or(drive * 8192, And(@, \h1FF0))]

rk11_commandEnd(s, drive) ==
    [s EXCEPT !.rk11.rkds = Or(drive * 8192, And(@, \h1FF0)),
              !.rk11.rkcs = Or(@, \h80)]

\* rk11_end counting the position in units of 256 bytes
rk11_end_halfsector(s, err, m, position, address, count) ==
    LET drive == m[2]
        sect  == Trunc(position, 256)
        spt   == RK_SECTORS[drive + 1]
        cs1   == Or(Or(Clr(s.rk11.rkcs, \h30), Bits(address, 16, 2) * 16),
                    \h2000)
        s1    == [s EXCEPT !.rk11.rkba = address % 65536,
                           !.rk11.rkcs = cs1,
                           !.rk11.rkwc = (65536 - Bits(count, 1, 16)) % 65536,
                           !.rk11.rkda = Or(Or(And(@, \hE000),
                                               Trunc(sect, spt) * 16),
                                            Rem(sect, spt))]
        s2    == CASE err = 1 ->
                        [s1 EXCEPT !.rk11.rker = Or(@, \h8100),
                                   !.rk11.rkcs = Or(@, \hC000)]
                   [] err = 2 ->
                        [s1 EXCEPT !.rk11.rker = Or(@, \h8400),
                                   !.rk11.rkcs = Or(@, \hC000)]
                   [] err = 3 ->
                        [s1 EXCEPT !.rk11.rker = Or(@, \h8001),
                                   !.rk11.rkcs = Or(@, \h8000)]
                   [] OTHER -> s1
    IN interrupt(s2, 10, 160, \o220, 0, "rk11_commandEnd", drive)

rk11_end(s, err, m, position, address, count) ==
    LET drive == m[2]
        sect  == Trunc(position, 512)
        spt   == RK_SECTORS[drive + 1]
        cs1   == Or(Or(Clr(s.rk11.rkcs, \h30), Bits(address, 16, 2) * 16),
                    \h2000)
        s1    == [s EXCEPT !.rk11.rkba = address % 65536,
                           !.rk11.rkcs = cs1,
                           !.rk11.rkwc = (65536 - Bits(count, 1, 16)) % 65536,
                           !.rk11.rkda = Or(Or(And(@, \hE000),
                                               Trunc(sect, spt) * 16),
                                            Rem(sect, spt))]
        s2    == CASE err = 1 ->
                        [s1 EXCEPT !.rk11.rker = Or(@, \h8100),
                                   !.rk11.rkcs = Or(@, \hC000)]
                   [] err = 2 ->
                        [s1 EXCEPT !.rk11.rker = Or(@, \h8400),
                                   !.rk11.rkcs = Or(@, \hC000)]
                   [] err = 3 ->
                        [s1 EXCEPT !.rk11.rker = Or(@, \h8001),
                                   !.rk11.rkcs = Or(@, \h8000)]
                   [] OTHER -> s1
    IN interrupt(s2, 10, 160, \o220, 0, "rk11_commandEnd", drive)

RL_SECTORS == <<40, 40, 40, 40>>
RL_TRACKS == <<1024, 1024, 512, 512>>
RL_STATUS == <<\o235, \o235, \o35, \o35>>

\* rl11_finish passes the callback in the unit position of interrupt()
FnUnit == 1000000

\* a command end that leaves the controller not ready
rl11_commandEnd_busy(s) == s

rl11_commandEnd(s) == [s EXCEPT !.rl11.csr = Or(@, \h81)]

rl11_finish(s) ==
    IF And(s.rl11.csr, \h40) # 0
    THEN interrupt(s, 10, 160, \o160, FnUnit, "none", 0)
    ELSE rl11_commandEnd(s)

rl11_end(s, err, m, position, address, count) ==
    LET drive  == m[2]
        sector == Trunc(position, 256)
        spt    == RL_SECTORS[drive + 1]
        dar    == Or(Trunc(sector, spt) * 64, Rem(sector, spt))
        s1     == [s EXCEPT !.rl11.bar = address % 65536,
                            !.rl11.csr = Or(Clr(@, \h30),
                                            Bits(address, 16, 2) * 16),
                            !.rl11.dar = dar,
                            !.rl11.DAR = dar,
                            !.rl11.mpr = (65536 - Bits(count, 1, 16)) % 65536]
        s2     == CASE err = 1 -> [s1 EXCEPT !.rl11.csr = Or(@, \h8400)]
                    [] err = 2 -> [s1 EXCEPT !.rl11.csr = Or(@, \hA000)]
                    [] OTHER -> s1
    IN rl11_finish(s2)

RP_SECTORS == <<22, 22, 22, 22, 22, 22, 22, 50>>
RP_SURFACES == <<19, 19, 19, 19, 19, 19, 19, 32>>
RP_CYLINDERS == <<815, 815, 815, 815, 815, 411, 815, 630>>
RP_DTYPE == <<\o20022, \o20022, \o20020, \o20020, \o20020, \o20020, \o20022, \o20042>>

RpMaxblock(drive) ==
    RP_CYLINDERS[drive + 1] * RP_SURFACES[drive + 1] * RP_SECTORS[drive + 1]

rp11_init(s) ==
    [s EXCEPT !.rp11.rpcs1 = \h880, !.rp11.rpcs2 = 0,
              !.rp11.rpds = [d \in 0..7 |-> IF d < 5 THEN \h11C0 ELSE 0],
              !.rp11.rpda = [d \in 0..7 |-> 0],
              !.rp11.rpdc = [d \in 0..7 |-> 0],
              !.rp11.rper1 = [d \in 0..7 |-> 0],
              !.rp11.rper3 = [d \in 0..7 |-> 0],
              !.rp11.rpas = 0, !.rp11.rpwc = 0, !.rp11.rpcs3 = 0,
              !.rp11.rpba = 0]

rp11_end(s, err, m, position, address, count) ==
    LET drive  == m[2]
        block  == Trunc(position + 511, 512)
        sector == Trunc(block, RP_SECTORS[drive + 1])
        s1 == [s EXCEPT !.rp11.rpwc = (65536 - Bits(count, 1, 16)) % 65536,
                        !.rp11.rpba = address % 4194304,
                        !.rp11.rpda[drive] =
                            Or(Rem(sector, RP_SURFACES[drive + 1]) * 256,
                               Rem(block, RP_SECTORS[drive + 1])),
                        !.rp11.rpdc[drive] = Trunc(sector, RP_SURFACES[drive + 1])]
        s2 == IF block >= RpMaxblock(drive)
              THEN [s1 EXCEPT !.rp11.rpds[drive] = Or(@, \h400)] ELSE s1
        s3 == IF err # 0
              THEN [s2 EXCEPT !.rp11.rpds[drive] = Or(@, \h8000),
                              !.rp11.rpcs1 = Or(@, \hC000),
                              !.rp11.rpcs2 = CASE err = 1 -> Or(@, \h200)
                                               [] err = 2 -> Or(@, \h800)
                                               [] OTHER -> @]
              ELSE s2
    IN interrupt(s3, 20, 160, \o254, 0, "rp11_end_ready", drive)

\* callback queued by rp11_end
rp11_end_ready(s, drive) ==
    [s EXCEPT !.rp11.rpds[drive] = Or(@, \h80), !.rp11.rpcs1 = Or(@, \h80)]

\* callback queued by rp11_go for the functions that end in an attention
rp11_go_attention(s, drive) ==
    [s EXCEPT !.rp11.rpds[drive] = Or(@, \h8000), !.rp11.rpcs1 = Or(@, \h8000)]

tm11_commandEnd(s) ==
    [s EXCEPT !.tm11.mts = Or(@, 1), !.tm11.mtc = Or(@, \h80)]

\* a finish that never queues an interrupt
tm11_finish_inline(s) == tm11_commandEnd(s)

tm11_finish(s) ==
    IF And(s.tm11.mtc, \h40) # 0
    THEN interrupt(s, 10, 160, \o224, 0, "tm11_commandEnd", 0)
    ELSE tm11_commandEnd(s)

\* the tail of tm11_end: register write-back, error bits, finish
tm11_endTail(s, err, m, address, count) ==
    LET s1 == IF s.meta[m].command = 0
              THEN [s EXCEPT !.tm11.mtbrc = (@ - count) % 65536,
                             !.tm11.mtcma = address % 65536,
                             !.tm11.mtc = Or(Clr(@, \h30),
                                             Bits(address, 16, 2) * 16)]
              ELSE s
        s2 == CASE err = 1 -> [s1 EXCEPT !.tm11.mts = Or(@, \h100)]
                [] err = 2 -> [s1 EXCEPT !.tm11.mts = Or(@, \h80)]
                [] OTHER -> s1
    IN tm11_finish(s2)

\* a length word that is never taken for a tape mark
tm11_tapeMark_never(address) == FALSE

\* address === 0 || address > 0x80000000
tm11_tapeMark(address) == address = 0 \/ Above31(address)

tm11_end(s, err, m, position, address, count) ==
    IF err = 0 /\ s.meta[m].command > 0
    THEN IF tm11_tapeMark(address)
         THEN tm11_endTail([s EXCEPT !.meta[m].position = Even32(position + 1),
                                     !.tm11.mts = Or(@, \h4000)],
                           err, m, address, count)
         ELSE CASE s.meta[m].command = 1 ->
                   LET want == (65536 - s.tm11.mtbrc) % 65536
                       fits == want >= address \/ want = 0
                       cnt  == IF fits THEN address ELSE want
                       s1   == [s EXCEPT !.meta[m].position =
                                             Even32(position + 4 + address + 1),
                                         !.meta[m].command = 0,
                                         !.tm11.mtbrc = IF fits THEN (@ + cnt) % 65536
                                                        ELSE 0,
                                         !.tm11.mts = IF fits THEN @ ELSE Or(@, \h200)]
                       addr == Or(And(s.tm11.mtc, \h30) * 4096, s.tm11.mtcma)
                   IN diskIO(s1, 2, m, position, addr, cnt)
                [] s.meta[m].command = 4 ->
                   LET pos == Even32(position + 4 + address + 1)
                       s1  == [s EXCEPT !.meta[m].position = pos,
                                        !.tm11.mtbrc = (@ + 1) % 65536]
                   IN IF s1.tm11.mtbrc # 0 THEN diskIO(s1, 4, m, pos, 0, 4)
                      ELSE tm11_endTail(s1, err, m, address, count)
                [] s.meta[m].command = 5 ->
                   LET pos == Even32(position - 8 - address + 1)
                       s1  == [s EXCEPT !.meta[m].position = pos,
                                        !.tm11.mtbrc = (@ + 1) % 65536]
                   IN IF s1.tm11.mtbrc # 0 /\ pos > 0
                      THEN diskIO(s1, 4, m, pos - 4, 0, 4)
                      ELSE tm11_endTail(s1, err, m, address, count)
                [] OTHER -> tm11_endTail(panic(s), err, m, address, count)
    ELSE tm11_endTail(s, err, m, address, count)

ptr11_end(s, err, m, position, address, count) ==
    LET s1 == [s EXCEPT !.meta[m].position = position,
                        !.ptr11.pdb = address % 256,
                        !.ptr11.prs = Clr(@, \h800)]
        s2 == IF And(s1.ptr11.prs, \h40) # 0
              THEN interrupt(s1, 6, 128, \o70, 0, "none", 0) ELSE s1
    IN IF err = 0 THEN [s2 EXCEPT !.ptr11.prs = Or(@, \h80)]
       ELSE [s2 EXCEPT !.ptr11.prs = Or(@, \h8000)]

\* meta.postProcess(err, meta, position, address, count)
postProcess(s0, err, m, position, address, count) ==
    LET s == [Ev(s0, "postProcess", m, err, count)
                EXCEPT !.inflight[m] = IF @ > 0 THEN @ - 1 ELSE 0,
                       !.pp = Append(@, <<err, position, address, count>>)]
    IN CASE m[1] = "rk" -> rk11_end(s, err, m, position, address, count)
         [] m[1] = "rl" -> rl11_end(s, err, m, position, address, count)
         [] m[1] = "rp" -> rp11_end(s, err, m, position, address, count)
         [] m[1] = "tm" -> tm11_end(s, err, m, position, address, count)
         [] OTHER -> ptr11_end(s, err, m, position, address, count)

(***************************************************************************)
(* The transfer engine.                                                    *)
(***************************************************************************)
\* the tail of diskIO: issue a fetch for the block of position, or complete
diskIOTail(s, operation, m, position, address, count, moved) ==
    IF count > 0
    THEN [Ev(s, "fetch", m, Trunc(position, IO_BLOCKSIZE), 0)
            EXCEPT !.meta[m].xhr = [st |-> "pending", operation |-> operation,
                                    position |-> position, address |-> address,
                                    count |-> count, crossing |-> moved,
                                    stale |-> FALSE]]
    ELSE postProcess(s, 0, m, position, address, count)

DmaAddress(s, m, address) ==
    IF s.meta[m].mapped = 1 THEN mapUnibus(s, address) ELSE address

\* the variables of the while loop of diskIO; out tells how the pass left
\* them: "loop" (go on), "break" (the next block is absent), or "err2" and
\* "err3" (the pass returns with postProcess(2, ...) or postProcess(3, ...))
LoopVars(s, block, offset, address, count, out) ==
    [s |-> s, block |-> block, offset |-> offset, address |-> address,
     count |-> count, out |-> out]

\* the end of one pass of the while loop: roll over to the next block
diskIONext(x, m) ==
    IF x.out = "loop" /\ x.offset >= IO_BLOCKSIZE
    THEN [x EXCEPT !.offset = 0, !.block = @ + 1,
                   !.out = IF (x.block + 1) \in DOMAIN x.s.meta[m].cache
                           THEN "loop" ELSE "break"]
    ELSE x

\* the switch of one pass of the while loop
diskIOBody(x, operation, m) ==
    LET s       == x.s
        block   == x.block
        offset  == x.offset
        address == x.address
        count   == x.count
        c       == s.meta[m].cache
        word    == CacheWord(c, block, offset)
        fail(s1, err) ==
            LoopVars(s1, block, offset, address, count,
                     IF err = 2 THEN "err2" ELSE "err3")
    IN CASE operation \in {1, 3} ->
            LET data == readWordByPhysical(s, DmaAddress(s, m, address))
            IN IF data < 0
               THEN fail(s, 2)
               ELSE IF operation = 1
               THEN LoopVars(
                      [s EXCEPT !.meta[m].cache =
                         CachePut(CachePut(c, block, offset, data % 256),
                                  block, offset + 1, Shr(data, 8) % 256)],
                      block, offset + 2, address + 2, count - 2, "loop")
               ELSE IF data # word
               THEN fail(s, 3)
               ELSE LoopVars(s, block, offset + 2, address + 2, count - 2, "loop")
         [] operation = 2 ->
            IF count > 1
            THEN LET s1 == writeWordByPhysical(s, DmaAddress(s, m, address), word)
                 IN IF s1.res < 0
                    THEN fail(s1, 2)
                    ELSE LoopVars(s1, block, offset + 2, address + 2, count - 2,
                                  "loop")
            ELSE LET s1 == writeByteByPhysical(s, DmaAddress(s, m, address),
                                               word % 256)
                 IN IF s1.res < 0
                    THEN fail(s1, 2)
                    ELSE LoopVars(s1, block, offset + 2, address + 1, count - 1,
                                  "loop")
         [] operation = 4 ->
            LoopVars(s, block, offset + 2, Word32(word, Bits(address, 16, 16)),
                     count - 2, "loop")
         [] operation = 5 ->
            LoopVars(s, block, offset + 1, CacheGet(c, block, offset), 0, "loop")
         [] OTHER ->
            LoopVars(panic(s), block, offset, address, 0, "loop")

RECURSIVE diskIOLoop(_, _, _, _)

\* while (count > 0): at most passes passes of the loop, taken in two halves
diskIOLoop(x, operation, m, passes) ==
    IF x.out # "loop" \/ x.count <= 0 \/ passes <= 0
    THEN x
    ELSE IF passes = 1
    THEN diskIONext(diskIOBody(x, operation, m), m)
    ELSE diskIOLoop(diskIOLoop(x, operation, m, passes \div 2), operation, m,
                    passes - (passes \div 2))

\* a fault reported with the position of the block, not of the word
diskIOFault_block(x, m) ==
    postProcess(x.s, IF x.out = "err2" THEN 2 ELSE 3, m,
                x.block * IO_BLOCKSIZE, x.address, x.count)

\* the returns of the loop through postProcess(2, ...) and postProcess(3, ...)
diskIOFault(x, m) ==
    postProcess(x.s, IF x.out = "err2" THEN 2 ELSE 3, m,
                x.block * IO_BLOCKSIZE + x.offset, x.address, x.count)

diskIO(s0, operation, m, position, address, count) ==
    LET s == IF s0.resume
             THEN [s0 EXCEPT !.resume = FALSE]
             ELSE [Ev(s0, "diskIO", m, operation, count)
                     EXCEPT !.inflight[m] = @ + 1]
        block == Trunc(position, IO_BLOCKSIZE)
    IN IF block \in DOMAIN s.meta[m].cache
       THEN LET x == diskIOLoop(LoopVars(s, block, Rem(position, IO_BLOCKSIZE),
                                         address, count, "loop"),
                                operation, m, count)
            IN IF x.out \in {"err2", "err3"}
               THEN diskIOFault(x, m)
               ELSE diskIOTail(x.s, operation, m,
                               x.block * IO_BLOCKSIZE + x.offset, x.address,
                               x.count, x.out = "break")
       ELSE diskIOTail(s, operation, m, position, address, count, FALSE)

\* getData(xhr, operation, meta, position, address, count), run when the
\* request of meta m reaches readyState DONE with the given status and body
\* getData that resumes the transfer whatever extractXHR returns
getData_resume(s, m, status, resp) ==
    LET x  == s.meta[m].xhr
        r  == extractXHR(status, resp, s.meta[m].cache,
                         Trunc(x.position, IO_BLOCKSIZE))
        s1 == [Ev(s, "getData", m, status, Len(resp))
                 EXCEPT !.meta[m].xhr = [NoXhr EXCEPT !.st = "idle"],
                        !.meta[m].cache = r.cache]
    IN diskIO([s1 EXCEPT !.resume = TRUE], x.operation, m,
              x.position, x.address, x.count)

getData(s, m, status, resp) ==
    LET x  == s.meta[m].xhr
        r  == extractXHR(status, resp, s.meta[m].cache,
                         Trunc(x.position, IO_BLOCKSIZE))
        s1 == [Ev(s, "getData", m, status, Len(resp))
                 EXCEPT !.meta[m].xhr = [NoXhr EXCEPT !.st = "idle"],
                        !.meta[m].cache = r.cache]
    IN IF r.r < 0
       THEN postProcess(s1, 1, m, x.position, x.address, x.count)
       ELSE diskIO([s1 EXCEPT !.resume = TRUE], x.operation, m,
                   x.position, x.address, x.count)

\* meta.xhr.abort(): a request in flight ends at once; fires tells whether
\* the engine delivers readystatechange (DONE, status 0, empty body) to the
\* handler from inside abort() or drops the request silently
xhrAbort(s, m, fires) ==
    IF s.meta[m].xhr.st = "pending"
    THEN IF fires THEN getData(Ev(s, "abort", m, 1, 0), m, 0, << >>)
         ELSE [Ev(s, "abort", m, 0, 0)
                 EXCEPT !.meta[m].xhr = [NoXhr EXCEPT !.st = "idle"]]
    ELSE s

RECURSIVE xhrAbortTimes(_, _, _, _)
xhrAbortTimes(s, m, fires, n) ==
    IF n = 0 THEN s ELSE xhrAbortTimes(xhrAbort(s, m, fires), m, fires, n - 1)

(***************************************************************************)
(* Register access helpers.                                                *)
(***************************************************************************)
\* insertData(original, physicalAddress, data, byteFlag); -1 stands for the
\* value of trap(4, 212) returned on a word access to an odd address
\* insertData without the trap: a word at an odd address is taken as it is
insertData_notrap(original, physicalAddress, data, byteFlag) ==
    IF data < 0 THEN original
    ELSE IF byteFlag = 0 THEN data
    ELSE IF physicalAddress % 2 = 1 THEN ((data * 256) % 65536) + (original % 256)
    ELSE (original - (original % 256)) + (data % 256)

insertData(original, physicalAddress, data, byteFlag) ==
    IF physicalAddress % 2 = 1
    THEN IF byteFlag = 0 THEN -1
         ELSE IF data >= 0 THEN ((data * 256) % 65536) + (original % 256)
         ELSE original
    ELSE IF data >= 0
         THEN IF byteFlag # 0
              THEN (original - (original % 256)) + (data % 256)
              ELSE data
         ELSE original

\* hand the value of a register access back, recording the trap of insertData
Result(s, result) ==
    IF result < 0 THEN trap(s, 4, 212) ELSE [s EXCEPT !.res = result]

WordOf(physicalAddress) == physicalAddress - (physicalAddress % 2)

(***************************************************************************)
(* RK11.                                                                   *)
(***************************************************************************)
\* a drive test that never finds a drive missing
rk11_nxd_never(drive) == FALSE

\* rk11.TRACKS[drive] === 0
rk11_nxd(drive) == RK_TRACKS[drive + 1] = 0

rk11_go(s0, fires) ==
    LET drive == Shr(s0.rk11.rkda, 13) % 8
        m     == <<"rk", drive>>
        s     == EnsureMeta(Ev(s0, "rk11_go", m, Shr(s0.rk11.rkcs, 1) % 8, 0), m, 1)
        fn    == Shr(s.rk11.rkcs, 1) % 8
        cyl   == Shr(s.rk11.rkda, 4) % 512
        sec   == s.rk11.rkda % 16
        end(x) == interrupt(x, 10, 160, \o220, 0, "rk11_commandEnd", drive)
    IN IF rk11_nxd(drive)
       THEN end([s EXCEPT !.rk11.rker = Or(@, \h8080)])
       ELSE CASE fn = 0 ->
                 end(rk11_init(xhrAbortTimes(
                        interrupt(s, -1, 160, \o220, -1, "none", 0), m, fires, 8)))
              [] fn \in {1, 2, 3} ->
                 IF cyl >= RK_TRACKS[drive + 1]
                 THEN end([s EXCEPT !.rk11.rker = Or(@, \h8040)])
                 ELSE IF sec >= RK_SECTORS[drive + 1]
                 THEN end([s EXCEPT !.rk11.rker = Or(@, \h8020)])
                 ELSE LET s1 == [s EXCEPT !.rk11.rkcs = Clr(@, \h2000)]
                          sector  == cyl * RK_SECTORS[drive + 1] + sec
                          address == Or(And(s1.rk11.rkcs, \h30) * 4096, s1.rk11.rkba)
                          count   == (65536 - s1.rk11.rkwc) % 65536
                      IN diskIO(s1, fn, m, sector * 512, address, count * 2)
              [] fn \in {4, 6} ->
                 LET s1 == IF fn = 6
                           THEN [s EXCEPT !.rk11.rker = 0,
                                          !.rk11.rkda = And(@, \hE000)]
                           ELSE s
                     s2 == [s1 EXCEPT !.rk11.rkcs = Or(Clr(@, \h2000), \h80)]
                 IN end(interrupt(s2, 64, 160, \o220, 64 + drive,
                                  "rk11_seekEnd", drive))
              [] OTHER -> end(s)

\* rk11_go called from inside the register write
rk11_kick_inline(s) == rk11_go(s, FALSE)

\* setTimeout(rk11_go, 0)
rk11_kick(s) ==
    [Ev(s, "setTimeout", NoUnit, 0, 0) EXCEPT !.timers.rk11_go = @ + 1]

accessRK11(s, physicalAddress, data, byteFlag) ==
    LET a == WordOf(physicalAddress)
    IN CASE a = \o17777400 -> [s EXCEPT !.res = s.rk11.rkds]
         [] a = \o17777402 -> [s EXCEPT !.res = s.rk11.rker]
         [] a = \o17777404 ->
            LET result == insertData(s.rk11.rkcs, physicalAddress, data, byteFlag)
            IN IF data >= 0 /\ result >= 0
               THEN LET cs == Or(Clr(result, \hF080), And(s.rk11.rkcs, \hF080))
                        s1 == [s EXCEPT !.rk11.rkcs = cs]
                    IN IF And(cs, \h81) = \h81
                       THEN Result(rk11_kick([s1 EXCEPT !.rk11.rkcs = Clr(cs, \h81),
                                                        !.rk11.rker = Clr(@, 3)]),
                                   result)
                       ELSE Result(s1, result)
               ELSE Result(s, result)
         [] a = \o17777406 ->
            LET result == insertData(s.rk11.rkwc, physicalAddress, data, byteFlag)
            IN Result(IF result >= 0 THEN [s EXCEPT !.rk11.rkwc = result] ELSE s,
                      result)
         [] a = \o17777410 ->
            LET result == insertData(s.rk11.rkba, physicalAddress, data, byteFlag)
            IN Result(IF result >= 0 THEN [s EXCEPT !.rk11.rkba = result] ELSE s,
                      result)
         [] a = \o17777412 ->
            LET result == insertData(s.rk11.rkda, physicalAddress, data, byteFlag)
            IN Result(IF result >= 0 THEN [s EXCEPT !.rk11.rkda = result] ELSE s,
                      result)
         [] a \in {\o17777414, \o17777416} -> [s EXCEPT !.res = 0]
         [] OTHER -> trap([s EXCEPT !.CPU.CPU_Error = Or(@, \h10)], 4, 202)

(***************************************************************************)
(* RL11.                                                                   *)
(***************************************************************************)
rl11_go(s0) ==
    LET drive == Shr(s0.rl11.csr, 8) % 4
        m     == <<"rl", drive>>
        s     == EnsureMeta([Ev(s0, "rl11_go", m, Shr(s0.rl11.csr, 1) % 8, 0)
                               EXCEPT !.rl11.csr = Clr(@, 1)], m, 1)
        fn    == Shr(s.rl11.csr, 1) % 8
        dar   == s.rl11.dar
        hnf   == Shr(dar, 6) >= RL_TRACKS[drive + 1]
                 \/ (dar % 64) >= RL_SECTORS[drive + 1]
        sector  == Shr(dar, 6) * RL_SECTORS[drive + 1] + (dar % 64)
        address == Or(s.rl11.bar, And(s.rl11.csr, \h30) * 4096)
        count   == (65536 - s.rl11.mpr) % 65536
    IN CASE fn = 2 ->
            LET s1 == IF And(s.rl11.mpr, 8) # 0
                      THEN [s EXCEPT !.rl11.csr = And(@, \h3F)] ELSE s
            IN rl11_finish([s1 EXCEPT !.rl11.mpr =
                              Or(RL_STATUS[drive + 1], And(s.rl11.DAR, \o100))])
         [] fn = 3 ->
            IF dar % 4 = 1
            THEN LET diff == And(dar, \hFF80)
                     cyl  == IF And(dar, 4) # 0 THEN s.rl11.DAR + diff
                             ELSE s.rl11.DAR - diff
                     new  == Or(And(cyl % 65536, \hFF80), And(dar * 4, \h40))
                 IN rl11_finish([s EXCEPT !.rl11.DAR = new, !.rl11.dar = new])
            ELSE rl11_finish(s)
         [] fn = 4 -> rl11_finish([s EXCEPT !.rl11.mpr = s.rl11.DAR])
         [] fn = 5 ->
            IF hnf THEN rl11_finish([s EXCEPT !.rl11.csr = Or(@, \h9400)])
            ELSE diskIO(s, 1, m, sector * 256, address, count * 2)
         [] fn \in {6, 7} ->
            IF hnf THEN rl11_finish([s EXCEPT !.rl11.csr = Or(@, \h9400)])
            ELSE diskIO(s, 2, m, sector * 256, address, count * 2)
         [] OTHER -> rl11_finish(s)

\* the go gate of accessRL11: bit 7 of the value written is clear
rl11_gate(s, result) == And(result, \h80) = 0

accessRL11(s, physicalAddress, data, byteFlag) ==
    LET a == WordOf(physicalAddress)
    IN CASE a = \o17774400 ->
            LET result == insertData(s.rl11.csr, physicalAddress, data, byteFlag)
            IN IF data >= 0 /\ result >= 0
               THEN LET s1 == IF And(s.rl11.csr, \h40) # 0 /\ And(result, \h40) = 0
                              THEN interrupt(s, -1, 160, \o160, 0, "none", 0)
                              ELSE s
                        put(x) == [x EXCEPT !.rl11.csr =
                                      Or(Clr(@, \h3FE), And(result, \h3FE))]
                    IN IF rl11_gate(s1, result)
                       THEN Result(rl11_go(put(s1)), result)
                       ELSE IF And(result, \h40) # 0 /\ And(s1.rl11.csr, \h40) = 0
                       THEN Result(put(interrupt(s1, 10, 160, \o160, 0, "none", 0)),
                                   result)
                       ELSE Result(put(s1), result)
               ELSE Result(s, result)
         [] a = \o17774402 ->
            LET result == insertData(s.rl11.bar, physicalAddress, data, byteFlag)
            IN Result(IF result >= 0
                      THEN [s EXCEPT !.rl11.bar = And(result, \hFFFE)] ELSE s,
                      result)
         [] a = \o17774404 ->
            LET result == insertData(s.rl11.dar, physicalAddress, data, byteFlag)
            IN Result(IF result >= 0 THEN [s EXCEPT !.rl11.dar = result] ELSE s,
                      result)
         [] a = \o17774406 ->
            LET result == insertData(s.rl11.mpr, physicalAddress, data, byteFlag)
            IN Result(IF result >= 0 THEN [s EXCEPT !.rl11.mpr = result] ELSE s,
                      result)
         [] OTHER -> trap([s EXCEPT !.CPU.CPU_Error = Or(@, \h10)], 4, 204)

(***************************************************************************)
(* RP11.                                                                   *)
(***************************************************************************)
rp11_go(s0) ==
    LET drive == s0.rp11.rpcs2 % 8
        m     == <<"rp", drive>>
        fn    == s0.rp11.rpcs1 % 64
        s     == EnsureMeta([Ev(s0, "rp11_go", m, fn, 0)
                               EXCEPT !.rp11.rpds[drive] = And(@, \h7FFF)], m, 0)
        bad   == s.rp11.rpdc[drive] >= RP_CYLINDERS[drive + 1]
                 \/ Shr(s.rp11.rpda[drive], 8) >= RP_SURFACES[drive + 1]
                 \/ (s.rp11.rpda[drive] % 256) >= RP_SECTORS[drive + 1]
        sector == (s.rp11.rpdc[drive] * RP_SURFACES[drive + 1]
                     + Shr(s.rp11.rpda[drive], 8)) * RP_SECTORS[drive + 1]
                  + (s.rp11.rpda[drive] % 256)
        attn(x) == interrupt(x, 12, 160, \o254, 0, "rp11_go_attention", drive)
        xfer(op) ==
            IF bad
            THEN attn([s EXCEPT !.rp11.rper1[drive] = Or(@, \h400),
                                !.rp11.rpcs1 = Or(@, \hC000)])
            ELSE diskIO([s EXCEPT !.rp11.rpcs1 = Clr(Clr(@, \h7000), \h4080),
                                  !.rp11.rpcs2 = Clr(@, \h800),
                                  !.rp11.rpds[drive] = Clr(@, \h480)],
                        op, m, sector * 512, s.rp11.rpba,
                        ((65536 - s.rp11.rpwc) % 65536) * 2)
    IN CASE fn \in {\o1, \o13} -> s
         [] fn \in {\o3, \o5, \o7, \o15, \o17, \o31} -> attn(s)
         [] fn = \o11 ->
            [s EXCEPT !.rp11.rpds[drive] = \h11C0, !.rp11.rpda[drive] = 0,
                      !.rp11.rpdc[drive] = 0, !.rp11.rpcs1 = \h880]
         [] fn = \o21 ->
            [s EXCEPT !.rp11.rpdc[drive] = 0, !.rp11.rpda[drive] = 0,
                      !.rp11.rpds[drive] = \h11C0, !.rp11.rpof[drive] = 0]
         [] fn = \o23 -> [s EXCEPT !.rp11.rpds[drive] = Or(@, \h40)]
         [] fn = \o61 -> xfer(1)
         [] fn = \o71 -> xfer(2)
         [] OTHER -> panic(s)

\* a drive register of an absent drive that reads as 0 and reports nothing
rp11_noDrive_silent(s0) == [s0 EXCEPT !.res = 0]

\* the else branch of accessRP11: a drive register of a drive without DVA
rp11_noDrive(s0) ==
    LET s1 == [s0 EXCEPT !.rp11.rpcs2 = Or(@, \h1000),
                         !.rp11.rpcs1 = Or(@, \hC000)]
        s2 == IF And(s1.rp11.rpcs1, \h40) # 0
              THEN interrupt(s1, 5, 160, \o254, 0, "none", 0) ELSE s1
    IN [s2 EXCEPT !.res = 0]

accessRP11(s0, physicalAddress, data, byteFlag) ==
    LET a   == WordOf(physicalAddress)
        idx == s0.rp11.rpcs2 % 8
        dva == And(s0.rp11.rpds[idx], \h100) # 0
    IN CASE a = \o17776700 ->
            LET r0 == Or(Clr(s0.rp11.rpcs1, \hB01),
                         And(Shr(s0.rp11.rpba, 8), \h300))
                r1 == IF dva
                      THEN Or(Or(r0, \h800),
                              IF And(s0.rp11.rpcs1, \h80) = 0 THEN 1 ELSE 0)
                      ELSE And(r0, \hFF7F)
                s  == [s0 EXCEPT !.rp11.rpcs1 = r1]
            IN IF data >= 0
               THEN LET ins == insertData(r1, physicalAddress, data, byteFlag)
                    IN IF ins >= 0
                       THEN LET result == Or(Clr(ins, \hB880), And(r1, \hB880))
                                s1 == [s EXCEPT !.rp11.rpba =
                                          Or(And(@, \h3CFFFF),
                                             And(ins * 256, \h30000))]
                                s2 == IF And(result, \h40) = 0
                                      THEN interrupt(s1, -1, 0, \o254, 0, "none", 0)
                                      ELSE s1
                                s3 == IF And(data, \hC0) = \hC0
                                      THEN interrupt(s2, 8, 160, \o254, 0, "none", 0)
                                      ELSE s2
                                s4 == [s3 EXCEPT !.rp11.rpcs1 = result]
                            IN IF result % 2 = 1 /\ And(result, \h80) # 0
                               THEN [rp11_go(s4) EXCEPT !.res = result]
                               ELSE [s4 EXCEPT !.res = result]
                       ELSE Result(s, ins)
               ELSE [s EXCEPT !.res = r1]
         [] a = \o17776702 ->
            LET result == insertData(s0.rp11.rpwc, physicalAddress, data, byteFlag)
            IN Result(IF result >= 0 THEN [s0 EXCEPT !.rp11.rpwc = result] ELSE s0,
                      result)
         [] a = \o17776704 ->
            IF data >= 0
            THEN LET result == insertData(s0.rp11.rpba % 65536, physicalAddress,
                                          data, byteFlag)
                 IN Result(IF result >= 0
                           THEN [s0 EXCEPT !.rp11.rpba =
                                    Or(And(@, \h3F0000), And(result, \hFFFE))]
                           ELSE s0, result)
            ELSE [s0 EXCEPT !.res = s0.rp11.rpba % 65536]
         [] a = \o17776710 ->
            IF data >= 0
            THEN LET result == insertData(s0.rp11.rpcs2, physicalAddress,
                                          data, byteFlag)
                 IN IF result >= 0
                    THEN LET s1 == [s0 EXCEPT !.rp11.rpcs2 =
                                       Or(And(result, \h3F), And(@, \hFFC0))]
                         IN Result(IF And(result, \h20) # 0
                                   THEN rp11_init(Ev(s1, "rp11_init", NoUnit, 0, 0))
                                   ELSE s1, result)
                    ELSE Result(s0, result)
            ELSE [s0 EXCEPT !.res = s0.rp11.rpcs2]
         [] a = \o17776716 ->
            LET hit(d) == And(s0.rp11.rpds[d], \h8000) # 0
                clr(d) == hit(d) /\ data >= 0 /\ And(data, 2 ^ d) # 0
                bits   == {d \in 0..7 : hit(d) /\ ~clr(d)}
                RECURSIVE sum(_)
                sum(S) == IF S = {} THEN 0
                          ELSE LET d == CHOOSE x \in S : TRUE
                               IN 2 ^ d + sum(S \ {d})
                s1 == [s0 EXCEPT !.rp11.rpds =
                          [d \in 0..7 |-> IF clr(d) THEN And(@[d], \h7FFF) ELSE @[d]],
                                 !.rp11.rpcs1 = IF data > 0 THEN And(@, \h7FFF) ELSE @]
            IN [s1 EXCEPT !.res = sum(bits)]
         [] a \in {\o17776722, \o17776752} -> [s0 EXCEPT !.res = 0]
         [] a = \o17776750 ->
            IF data >= 0
            THEN LET result == insertData(Shr(s0.rp11.rpba, 16) % 64,
                                          physicalAddress, data, byteFlag)
                 IN Result(IF result >= 0
                           THEN [s0 EXCEPT !.rp11.rpba =
                                    Or((result % 64) * 65536, @ % 65536)]
                           ELSE s0, result)
            ELSE [s0 EXCEPT !.res = Shr(s0.rp11.rpba, 16) % 64]
         [] OTHER ->
            IF dva
            THEN CASE a = \o17776706 ->
                      LET result == insertData(s0.rp11.rpda[idx], physicalAddress,
                                               data, byteFlag)
                      IN Result(IF result >= 0
                                THEN [s0 EXCEPT !.rp11.rpda[idx] = And(result, \h1F1F)]
                                ELSE s0, result)
                   [] a = \o17776712 -> [s0 EXCEPT !.res = s0.rp11.rpds[idx]]
                   [] a \in {\o17776714, \o17776720, \o17776724, \o17776740,
                             \o17776742, \o17776744, \o17776746} ->
                      [s0 EXCEPT !.res = 0]
                   [] a = \o17776726 -> [s0 EXCEPT !.res = RP_DTYPE[idx + 1]]
                   [] a = \o17776730 -> [s0 EXCEPT !.res = idx + 1]
                   [] a = \o17776732 ->
                      LET result == insertData(s0.rp11.rpof[idx], physicalAddress,
                                               data, byteFlag)
                      IN Result(IF result >= 0
                                THEN [s0 EXCEPT !.rp11.rpof[idx] = result]
                                ELSE s0, result)
                   [] a = \o17776734 ->
                      LET result == insertData(s0.rp11.rpdc[idx], physicalAddress,
                                               data, byteFlag)
                      IN Result(IF result >= 0
                                THEN [s0 EXCEPT !.rp11.rpdc[idx] = And(result, \h3FF)]
                                ELSE s0, result)
                   [] a = \o17776736 -> [s0 EXCEPT !.res = s0.rp11.rpdc[idx]]
                   [] OTHER -> trap([s0 EXCEPT !.CPU.CPU_Error = Or(@, \h10)], 4, 206)
            ELSE rp11_noDrive(s0)

(***************************************************************************)
(* TM11.                                                                   *)
(***************************************************************************)
\* tm11_init that also throws the tape images away
tm11_init_flush(s) ==
    [s EXCEPT !.tm11.mts = \h65, !.tm11.mtc = \h6080,
              !.meta = [m \in DOMAIN @ |->
                           IF m[1] = "tm"
                           THEN [@[m] EXCEPT !.position = 0, !.cache = << >>]
                           ELSE @[m]]]

tm11_init(s) ==
    [s EXCEPT !.tm11.mts = \h65, !.tm11.mtc = \h6080,
              !.meta = [m \in DOMAIN @ |->
                           IF m[1] = "tm" THEN [@[m] EXCEPT !.position = 0]
                           ELSE @[m]]]

tm11_go(s0) ==
    LET drive == Shr(s0.tm11.mtc, 8) % 4
        m     == <<"tm", drive>>
        cmd   == Shr(s0.tm11.mtc, 1) % 8
        s1    == EnsureMeta([Ev(s0, "tm11_go", m, cmd, 0)
                               EXCEPT !.tm11.mtc = Clr(@, \h81),
                                      !.tm11.mts = And(@, \h04FE)], m, 1)
        s     == [s1 EXCEPT !.meta[m].command = cmd]
        pos   == s.meta[m].position
    IN CASE cmd \in {1, 4} -> diskIO(s, 4, m, pos, 0, 4)
         [] cmd = 5 ->
            IF pos > 0 THEN diskIO(s, 4, m, pos - 4, 0, 4) ELSE tm11_finish(s)
         [] cmd = 7 ->
            tm11_finish([s EXCEPT !.meta[m].position = 0,
                                  !.tm11.mts = Or(@, \h20)])
         [] OTHER -> tm11_finish(s)

\* the init bit of mtc resetting the registers only
tm11_mtcInit(s) == [s EXCEPT !.tm11.mts = \h65, !.tm11.mtc = \h6080]

accessTM11(s0, physicalAddress, data, byteFlag) ==
    LET a == WordOf(physicalAddress)
    IN CASE a = \o17772520 ->
            LET m   == <<"tm", Shr(s0.tm11.mtc, 8) % 4>>
                bot == m \in DOMAIN s0.meta /\ s0.meta[m].position = 0
                mts == IF bot THEN Or(Clr(s0.tm11.mts, \h20), \h20)
                       ELSE Clr(s0.tm11.mts, \h20)
            IN [s0 EXCEPT !.tm11.mts = mts, !.res = mts]
         [] a = \o17772522 ->
            LET mtc0 == IF And(s0.tm11.mts, \hFF80) # 0
                        THEN Or(And(s0.tm11.mtc, \h7FFF), \h8000)
                        ELSE And(s0.tm11.mtc, \h7FFF)
                s    == [s0 EXCEPT !.tm11.mtc = mtc0]
                result == insertData(mtc0, physicalAddress, data, byteFlag)
            IN IF data >= 0 /\ result >= 0
               THEN LET s1 == IF And(mtc0, \h40) # 0 /\ And(result, \h40) = 0
                              THEN interrupt(s, -1, 160, \o224, -1, "none", 0)
                              ELSE s
                        s2 == IF And(result, \h1000) # 0 THEN tm11_mtcInit(s1)
                              ELSE s1
                        put(x) == [x EXCEPT !.tm11.mtc =
                                      Or(And(@, \h80), And(result, \hFF7F))]
                    IN IF And(s2.tm11.mtc, \h80) # 0 /\ result % 2 = 1
                       THEN Result(tm11_go(put(s2)), result)
                       ELSE IF And(result, \h40) # 0
                               /\ And(s2.tm11.mtc, \hC0) = \h80
                       THEN Result(put(interrupt(s2, 10, 160, \o224, 0, "none", 0)),
                                   result)
                       ELSE Result(put(s2), result)
               ELSE Result(s, result)
         [] a = \o17772524 ->
            LET result == insertData(s0.tm11.mtbrc, physicalAddress, data, byteFlag)
            IN Result(IF result >= 0 THEN [s0 EXCEPT !.tm11.mtbrc = result] ELSE s0,
                      result)
         [] a = \o17772526 ->
            LET result == insertData(s0.tm11.mtcma, physicalAddress, data, byteFlag)
            IN Result(IF result >= 0 THEN [s0 EXCEPT !.tm11.mtcma = result] ELSE s0,
                      result)
         [] a \in {\o17772530, \o17772532} -> [s0 EXCEPT !.res = 0]
         [] OTHER -> trap([s0 EXCEPT !.CPU.CPU_Error = Or(@, \h10)], 4, 208)

(***************************************************************************)
(* PTR.  ptr11.meta is the generation of the current metadata object, or   *)
(* -1 when there is none; an object that ptr11_init has let go of is kept  *)
(* only while its request is in flight.                                    *)
(***************************************************************************)
PtrMeta(g) == <<"ptr", g>>

FreshPtrMeta(s) ==
    CHOOSE g \in 0..(MaxOps + 1) :
        /\ PtrMeta(g) \notin DOMAIN s.meta
        /\ \A h \in 0..(g - 1) : PtrMeta(h) \in DOMAIN s.meta

\* delete ptr11.meta
ptr11_forget(s) ==
    IF s.ptr11.meta >= 0
    THEN LET m    == PtrMeta(s.ptr11.meta)
             keep == {k \in DOMAIN s.meta : k # m \/ s.meta[m].xhr.st = "pending"}
         IN [s EXCEPT !.ptr11.meta = -1,
                      !.meta = [k \in keep |-> @[k]],
                      !.inflight = [k \in keep |-> @[k]]]
    ELSE s

\* nameEmpty: document.getElementById("ptr").value is the empty string
ptr11_init(s, nameEmpty) ==
    ptr11_forget([s EXCEPT !.ptr11.prs = IF nameEmpty THEN \h8000 ELSE 0,
                           !.ptr11.name = IF nameEmpty THEN "" ELSE "ptr"])

accessPTR11(s0, physicalAddress, data, byteFlag) ==
    CASE And(physicalAddress, 6) = 0 ->
         LET result == insertData(s0.ptr11.prs, physicalAddress, data, byteFlag)
         IN IF result >= 0 /\ data > 0
            THEN LET s1 == IF And(result, \h40) # 0 /\ And(s0.ptr11.prs, \h40) = 0
                              /\ And(s0.ptr11.prs, \h8080) # 0
                           THEN interrupt(s0, 6, 128, \o70, 0, "none", 0)
                           ELSE s0
                 IN IF And(s1.ptr11.prs, \h8800) = 0 /\ result % 2 = 1
                    THEN LET g  == IF s1.ptr11.meta >= 0 THEN s1.ptr11.meta
                                   ELSE FreshPtrMeta(s1)
                             m  == PtrMeta(g)
                             s2 == [EnsureMeta(s1, m, 0) EXCEPT !.ptr11.meta = g]
                             prs == Or(Or(Clr(s2.ptr11.prs, \hC0), And(result, \h40)),
                                       \h800)
                             s3 == [s2 EXCEPT !.ptr11.prs = prs]
                         IN [diskIO(s3, 5, m, s3.meta[m].position, \o17777552, 1)
                               EXCEPT !.res = prs]
                    ELSE Result(s1, result)
            ELSE Result(s0, result)
      [] And(physicalAddress, 6) = 2 ->
         LET result == insertData(s0.ptr11.pdb, physicalAddress, data, byteFlag)
         IN Result([s0 EXCEPT !.ptr11.prs = Clr(@, \h80)], result)
      [] OTHER -> [s0 EXCEPT !.res = -1]

(***************************************************************************)
(* LP11, DL11, KW11 reset routines and the global reset.                   *)
(***************************************************************************)
lp11_init(s) == [s EXCEPT !.lp11.lpcs = \h80]

dl11_reset(s) ==
    [s EXCEPT !.DL11 = [u \in DOMAIN @ |-> [@[u] EXCEPT !.rcsr = 0, !.xcsr = \h80]]]

\* kw11_init that arms a timer at every call
kw11_init_always(s) ==
    [s EXCEPT !.kw11.csr = \h80, !.kw11.timerId = 1, !.timers.kw11 = @ + 1]

kw11_init(s) ==
    IF s.kw11.timerId = 0
    THEN [s EXCEPT !.kw11.csr = \h80, !.kw11.timerId = 1, !.timers.kw11 = @ + 1]
    ELSE [s EXCEPT !.kw11.csr = \h80]

\* halted: CPU.runState === STATE_HALT when the timer fires
kw11_interrupt(s, halted) ==
    IF halted THEN [s EXCEPT !.timers.kw11 = @ + 1]
    ELSE LET s1 == [s EXCEPT !.timers.kw11 = @ + 1, !.kw11.csr = Or(@, \h80)]
         IN IF And(s1.kw11.csr, \h40) # 0
            THEN interrupt(s1, 0, 192, \o100, 0, "none", 0) ELSE s1

\* reset_iopage without the assignment to rl11.csr
reset_iopage_norl(s, nameEmpty) ==
    LET s1 == [s EXCEPT !.CPU.PIR = 0, !.CPU.stackLimit = \hFF,
                        !.CPU.CPU_Error = 0, !.CPU.interruptQueue = {},
                        !.CPU.MMR0 = 0, !.CPU.MMR3 = 0, !.CPU.mmuEnable = 0,
                        !.CPU.mmuMode = 0, !.CPU.mmuLastPage = 0]
        s2 == rk11_init(kw11_init(lp11_init(ptr11_init(dl11_reset(s1), nameEmpty))))
    IN tm11_init(rp11_init(s2))

reset_iopage(s, nameEmpty) ==
    LET s1 == [s EXCEPT !.CPU.PIR = 0, !.CPU.stackLimit = \hFF,
                        !.CPU.CPU_Error = 0, !.CPU.interruptQueue = {},
                        !.CPU.MMR0 = 0, !.CPU.MMR3 = 0, !.CPU.mmuEnable = 0,
                        !.CPU.mmuMode = 0, !.CPU.mmuLastPage = 0]
        s2 == rk11_init(kw11_init(lp11_init(ptr11_init(dl11_reset(s1), nameEmpty))))
    IN tm11_init(rp11_init([s2 EXCEPT !.rl11.csr = \h80]))

(***************************************************************************)
(* DL11 terminals, the KW11 register and the I/O page dispatcher.  DL11 is  *)
(* a function from the units that exist to their registers.  Of the         *)
(* dispatcher the arms of the controllers above, of the console and of the  *)
(* KW11 are modelled; the registers of the CPU, the MMU and the LP11 are    *)
(* left out.                                                                *)
(***************************************************************************)
dl11_initialize(s, unit, vector) ==
    [s EXCEPT !.DL11 = [u \in DOMAIN @ \cup {unit} |->
        IF u = unit
        THEN [rcsr |-> 0, rbuf |-> 0, xcsr |-> \h80, xbuf |-> 0, vector |-> vector]
        ELSE @[u]]]

\* dl11Input that takes a character whatever the done bit says
dl11Input_overwrite(s, unit, ch) ==
    LET s1 == [s EXCEPT !.DL11[unit].rbuf = ch, !.DL11[unit].rcsr = Or(@, \h80)]
        s2 == IF And(s1.DL11[unit].rcsr, \h40) # 0
              THEN interrupt(s1, 4, 128, s1.DL11[unit].vector, 0, "none", 0)
              ELSE s1
    IN [s2 EXCEPT !.res = 1]

dl11Input(s, unit, ch) ==
    IF And(s.DL11[unit].rcsr, \h80) # 0
    THEN [s EXCEPT !.res = 0]
    ELSE LET s1 == [s EXCEPT !.DL11[unit].rbuf = ch,
                             !.DL11[unit].rcsr = Or(@, \h80)]
             s2 == IF And(s1.DL11[unit].rcsr, \h40) # 0
                   THEN interrupt(s1, 4, 128, s1.DL11[unit].vector, 0, "none", 0)
                   ELSE s1
         IN [s2 EXCEPT !.res = 1]

accessDL11(s0, physicalAddress, data, byteFlag, unit, vector) ==
    LET s == IF unit \in DOMAIN s0.DL11 THEN s0 ELSE dl11_initialize(s0, unit, vector)
        d == s.DL11[unit]
        a == And(physicalAddress, 6)
    IN CASE a = 6 ->
            LET result == insertData(d.xbuf, physicalAddress, data, byteFlag)
            IN IF data >= 0 /\ result >= 0
               THEN LET s1 == [s EXCEPT !.DL11[unit].xbuf = result]
                        ch == And(result, \h7F)
                        s2 == IF ch >= 8 /\ ch < 127
                              THEN Ev(s1, "vt52Put", <<"dl", unit>>, ch, 0) ELSE s1
                        s3 == IF And(d.xcsr, \h40) # 0
                              THEN interrupt(s2, 4, 128, d.vector + 4, 0, "none", 0)
                              ELSE s2
                    IN Result(s3, ch)
               ELSE Result(s, result)
         [] a = 4 ->
            LET result == insertData(d.xcsr, physicalAddress, data, byteFlag)
            IN IF data >= 0 /\ result >= 0 /\ And(Xor(d.xcsr, result), \h40) # 0
               THEN IF And(result, \h40) # 0
                    THEN Result(interrupt([s EXCEPT !.DL11[unit].xcsr = \hC0],
                                          5, 128, d.vector + 4, 0, "none", 0), result)
                    ELSE Result(interrupt([s EXCEPT !.DL11[unit].xcsr = And(@, \h80)],
                                          -1, 128, d.vector + 4, -1, "none", 0), result)
               ELSE Result(s, result)
         [] a = 2 ->
            LET result == insertData(d.rbuf, physicalAddress, data, byteFlag)
            IN IF result >= 0 /\ data < 0
               THEN Result([s EXCEPT !.DL11[unit].rcsr = Clr(@, \h80)], result)
               ELSE Result(s, result)
         [] a = 0 ->
            LET result == insertData(d.rcsr, physicalAddress, data, byteFlag)
            IN IF result >= 0 /\ data >= 0
               THEN LET s1 == IF And(d.rcsr, \h40) # 0 /\ And(result, \h40) = 0
                              THEN interrupt(s, -1, 128, d.vector, -1, "none", 0)
                              ELSE s
                    IN Result([s1 EXCEPT !.DL11[unit].rcsr =
                                  Or(And(d.rcsr, \h80), And(result, \h40))], result)
               ELSE Result(s, result)

\* case 0o17777546 of access_iopage
accessKW11(s, physicalAddress, data, byteFlag) ==
    LET result == insertData(s.kw11.csr, physicalAddress, data, byteFlag)
    IN IF data >= 0 /\ result >= 0
       THEN LET r1 == And(result, \h40)
            IN IF And(Xor(r1, s.kw11.csr), \h40) # 0
               THEN IF r1 # 0
                    THEN Result(interrupt([s EXCEPT !.kw11.csr = \hC0],
                                          10, 192, \o100, 0, "none", 0), \hC0)
                    ELSE Result(interrupt([s EXCEPT !.kw11.csr = r1],
                                          -1, 192, \o100, -1, "none", 0), r1)
               ELSE Result([s EXCEPT !.kw11.csr = r1], r1)
       ELSE Result(s, result)

\* the byte adjustment and the address error light at the end of access_iopage
iopage_adjust(s, physicalAddress, byteFlag) ==
    IF s.res < 0 THEN [s EXCEPT !.CPU.displayPhysical = -1]
    ELSE IF byteFlag # 0
    THEN IF physicalAddress % 2 = 1 THEN [s EXCEPT !.res = Shr(@, 8)]
         ELSE [s EXCEPT !.res = And(@, \hFF)]
    ELSE s

\* an adjustment that hands the low byte back for odd addresses as well
iopage_adjust_low(s, physicalAddress, byteFlag) ==
    IF s.res < 0 THEN [s EXCEPT !.CPU.displayPhysical = -1]
    ELSE IF byteFlag # 0 THEN [s EXCEPT !.res = And(@, \hFF)]
    ELSE s

access_iopage(s, physicalAddress, data, byteFlag) ==
    LET blk == physicalAddress - (physicalAddress % 64)
        a   == WordOf(physicalAddress)
        r   == CASE blk = \o17777500 /\ a \in {\o17777560, \o17777562,
                                                \o17777564, \o17777566} ->
                    accessDL11(s, physicalAddress, data, byteFlag, 0, \o60)
                 [] blk = \o17777500 /\ a \in {\o17777550, \o17777552} ->
                    accessPTR11(s, physicalAddress, data, byteFlag)
                 [] blk = \o17777500 /\ a = \o17777546 ->
                    accessKW11(s, physicalAddress, data, byteFlag)
                 [] blk = \o17777400 ->
                    accessRK11(s, physicalAddress, data, byteFlag)
                 [] blk = \o17776700 /\ physicalAddress <= \o17776753 ->
                    accessRP11(s, physicalAddress, data, byteFlag)
                 [] blk = \o17776500 /\ physicalAddress <= \o17776527 ->
                    LET idx == Shr(physicalAddress - \o17776500, 3)
                    IN accessDL11(s, physicalAddress, data, byteFlag,
                                  idx + 1, idx * 8 + \o300)
                 [] blk = \o17774400 ->
                    accessRL11(s, physicalAddress, data, byteFlag)
                 [] blk = \o17772500 /\ a # \o17772516 ->
                    accessTM11(s, physicalAddress, data, byteFlag)
    IN iopage_adjust(r, physicalAddress, byteFlag)

(***************************************************************************)
(* The state machine.                                                      *)
(***************************************************************************)
Devices == {"rk", "rl", "rp", "tm", "ptr"}

S == [rk11 |-> rk11, rl11 |-> rl11, rp11 |-> rp11, tm11 |-> tm11,
      ptr11 |-> ptr11, kw11 |-> kw11, lp11 |-> lp11, DL11 |-> DL11,
      CPU |-> CPU, meta |-> meta, mem |-> mem, timers |-> timers,
      inflight |-> inflight, tr |-> << >>, pp |-> << >>, res |-> 0,
      resume |-> FALSE]

\* metadata objects nothing refers to any more
Garbage(r) ==
    {m \in DOMAIN r.meta : m[1] = "ptr" /\ m[2] # r.ptr11.meta
                           /\ r.meta[m].xhr.st # "pending"}

Commit(r, op, physicalAddress, data, byteFlag) ==
    LET keep == DOMAIN r.meta \ Garbage(r)
    IN /\ rk11' = r.rk11
       /\ rl11' = r.rl11
       /\ rp11' = r.rp11
       /\ tm11' = r.tm11
       /\ ptr11' = r.ptr11
       /\ kw11' = r.kw11
       /\ lp11' = r.lp11
       /\ DL11' = r.DL11
       /\ CPU' = r.CPU
       /\ meta' = [m \in keep |-> r.meta[m]]
       /\ mem' = r.mem
       /\ timers' = r.timers
       /\ inflight' = [m \in keep |-> r.inflight[m]]
       /\ last' = [op |-> op, pa |-> physicalAddress, data |-> data,
                   byteFlag |-> byteFlag, res |-> r.res, tr |-> r.tr,
                   pp |-> r.pp]
       /\ nfetch' = IF op = "getData" THEN (nfetch + 1) % (MaxFetches + 1)
                    ELSE nfetch
       /\ UNCHANGED active

\* every byte of memory starts with a value of its own
MemInit == [i \in 0..(MemWords - 1) |-> 256 * (2 * i + 2) + (2 * i + 1)]

\* the controllers and the CPU after construction
InitDevices ==
    /\ rk11 = [rkds |-> \o4700, rker |-> 0, rkcs |-> \o200, rkwc |-> 0,
               rkba |-> 0, rkda |-> 0]
    /\ rl11 = [csr |-> \h81, bar |-> 0, dar |-> 0, mpr |-> 0, DAR |-> 0]
    /\ rp11 = [rpcs1 |-> \h880, rpwc |-> 0, rpba |-> 0, rpcs2 |-> 0,
               rpda |-> [d \in 0..7 |-> 0],
               rpds |-> [d \in 0..7 |-> IF d < 5 THEN \h1180 ELSE 0],
               rper1 |-> [d \in 0..7 |-> 0], rpof |-> [d \in 0..7 |-> 0],
               rpdc |-> [d \in 0..7 |-> 0], rper3 |-> [d \in 0..7 |-> 0],
               rpas |-> 0, rpcs3 |-> 0]
    /\ tm11 = [mts |-> \h65, mtc |-> \h6080, mtbrc |-> 0, mtcma |-> 0]
    /\ ptr11 = [prs |-> 0, pdb |-> 0, name |-> "", meta |-> -1]
    /\ kw11 = [csr |-> 0, timerId |-> 0]
    /\ lp11 = [lpcs |-> 0]
    /\ DL11 = << >>
    /\ CPU = [PIR |-> 0, stackLimit |-> \hFF, CPU_Error |-> 0,
              interruptQueue |-> {}, MMR0 |-> 0, MMR3 |-> 0, mmuEnable |-> 0,
              mmuMode |-> 0, mmuLastPage |-> 0, displayPhysical |-> 0,
              unibusMap |-> [i \in 0..31 |-> 0]]
    /\ timers = [rk11_go |-> 0, kw11 |-> 0]
    /\ last = [op |-> "init", pa |-> 0, data |-> 0, byteFlag |-> 0, res |-> 0,
               tr |-> << >>, pp |-> << >>]
    /\ nops = 0
    /\ nfetch = 0

Init ==
    /\ InitDevices
    /\ meta = << >>
    /\ mem = MemInit
    /\ inflight = << >>
    /\ active \in Devices

\* the register accesses a guest program makes: <<address, data, byteFlag>>
RKAccesses ==
    {<<\o17777404, d, 0>> : d \in {\h01, \h03, \h45, \h09}}
    \cup {<<\o17777406, \hFFFD, 0>>}

RLAccesses ==
    {<<\o17774400, d, 0>> : d \in {\h0C, \h4C, \h0A}}
    \cup {<<\o17774406, \hFFFD, 0>>}

RPAccesses ==
    {<<\o17776700, d, 0>> : d \in {\o71, \o61, \o5}}
    \cup {<<\o17776702, \hFFFD, 0>>, <<\o17776710, \h20, 0>>}

TMAccesses ==
    {<<\o17772522, d, 0>> : d \in {\h6003, \h7003, \h6009, \h600F}}
    \cup {<<\o17772524, \hFFFE, 0>>}

PTRAccesses ==
    {<<\o17777550, d, 0>> : d \in {\h01, \h41}}
    \cup {<<\o17777552, -1, 0>>}

GuestRK ==
    /\ active = "rk" /\ nops < MaxOps
    /\ \E x \in RKAccesses :
          Commit(accessRK11(S, x[1], x[2], x[3]), "accessRK11", x[1], x[2], x[3])
    /\ nops' = nops + 1

GuestRL ==
    /\ active = "rl" /\ nops < MaxOps
    /\ \E x \in RLAccesses :
          Commit(accessRL11(S, x[1], x[2], x[3]), "accessRL11", x[1], x[2], x[3])
    /\ nops' = nops + 1

GuestRP ==
    /\ active = "rp" /\ nops < MaxOps
    /\ \E x \in RPAccesses :
          Commit(accessRP11(S, x[1], x[2], x[3]), "accessRP11", x[1], x[2], x[3])
    /\ nops' = nops + 1

GuestTM ==
    /\ active = "tm" /\ nops < MaxOps
    /\ \E x \in TMAccesses :
          Commit(accessTM11(S, x[1], x[2], x[3]), "accessTM11", x[1], x[2], x[3])
    /\ nops' = nops + 1

GuestPTR ==
    /\ active = "ptr" /\ nops < MaxOps
    /\ \E x \in PTRAccesses :
          Commit(accessPTR11(S, x[1], x[2], x[3]), "accessPTR11", x[1], x[2], x[3])
    /\ nops' = nops + 1

\* history: mark the requests in flight at a RESET
MarkStale(r) ==
    [r EXCEPT !.meta = [m \in DOMAIN @ |->
                          IF @[m].xhr.st = "pending"
                          THEN [@[m] EXCEPT !.xhr.stale = TRUE] ELSE @[m]]]

\* the RESET instruction
Reset ==
    /\ nops < MaxOps
    /\ \E nameEmpty \in (IF active = "ptr" THEN BOOLEAN ELSE {FALSE}) :
          Commit(MarkStale(reset_iopage(S, nameEmpty)), "reset_iopage", 0, 0, 0)
    /\ nops' = nops + 1

\* the task queued by setTimeout(rk11_go, 0)
TimerRk11Go ==
    /\ timers.rk11_go > 0
    /\ \E fires \in BOOLEAN :
          Commit(rk11_go([S EXCEPT !.timers.rk11_go = @ - 1], fires),
                 "rk11_go", 0, 0, 0)
    /\ UNCHANGED nops

\* the task queued by setTimeout(kw11_interrupt, ...), which re-arms itself
TimerKw11 ==
    /\ timers.kw11 > 0
    /\ \E halted \in BOOLEAN :
          Commit(kw11_interrupt([S EXCEPT !.timers.kw11 = @ - 1], halted),
                 "kw11_interrupt", 0, 0, 0)
    /\ UNCHANGED nops

\* the bodies a block request can come back with
Response(len) == [i \in 1..len |-> 1 + (i % 2)]

\* <<status, length of the body>> of the completions of a block request
Completions ==
    {<<416, 0>>, <<404, 0>>, <<206, IO_BLOCKSIZE>>,
     <<200, IO_BLOCKSIZE>>, <<200, 2 * IO_BLOCKSIZE>>}

\* the request of a drive reaches readyState DONE
FetchDone ==
    /\ nfetch < MaxFetches
    /\ \E m \in DOMAIN meta :
          /\ meta[m].xhr.st = "pending"
          /\ \E x \in Completions :
                Commit(getData(S, m, x[1], Response(x[2])), "getData",
                       x[1], x[2], 0)
    /\ UNCHANGED nops

\* the callback of a queue entry
RunCallback(s, e) ==
    CASE e.callback = "rk11_commandEnd" -> rk11_commandEnd(s, e.callarg)
      [] e.callback = "rk11_seekEnd" -> rk11_seekEnd(s, e.callarg)
      [] e.callback = "rp11_end_ready" -> rp11_end_ready(s, e.callarg)
      [] e.callback = "rp11_go_attention" -> rp11_go_attention(s, e.callarg)
      [] e.callback = "tm11_commandEnd" -> tm11_commandEnd(s)
      [] OTHER -> s

\* the CPU takes an entry off the interrupt queue and runs its callback
InterruptRun ==
    /\ \E e \in CPU.interruptQueue :
          Commit(RunCallback([S EXCEPT !.CPU.interruptQueue = @ \ {e}], e),
                 "interrupt", e.vector, e.unit, 0)
    /\ UNCHANGED nops

Next ==
    \/ GuestRK
    \/ GuestRL
    \/ GuestRP
    \/ GuestTM
    \/ GuestPTR
    \/ Reset
    \/ TimerRk11Go
    \/ TimerKw11
    \/ FetchDone
    \/ InterruptRun

Spec == Init /\ [][Next]_vars

TypeOK == nops \in 0..MaxOps /\ nfetch \in 0..MaxFetches

(***************************************************************************)
(* diskIO on its own: writes (op 1) and reads (op 2) of one image, started *)
(* at the positions, addresses and byte counts of the sets below and       *)
(* resumed by the completions of the block requests they make.  last.pa is *)
(* <<operation, position, address, count>> of the transfer under way and   *)
(* last.data that of the transfer before it, followed by its err.          *)
(***************************************************************************)
IOM == <<"rk", 0>>

IOPositions == {0, IO_BLOCKSIZE - 2}

IOAddresses == {0, 2, 4}

IOCounts == {1, 2, 3, 4, IO_BLOCKSIZE}

\* the bytes of block number block of the image file
ImageBlock(block) ==
    [i \in 1..IO_BLOCKSIZE |-> (((block * IO_BLOCKSIZE + i) * 7) % 251) + 1]

\* the err of the postProcess call of a trace, -1 when there is none
ErrOf(tr) ==
    IF \E i \in DOMAIN tr : tr[i][1] = "postProcess"
    THEN tr[CHOOSE i \in DOMAIN tr : tr[i][1] = "postProcess"][4]
    ELSE -1

InitIO ==
    /\ Init
    /\ active = "rk"

IOStart ==
    /\ nops < MaxXfers
    /\ IOM \in DOMAIN meta => meta[IOM].xhr.st # "pending"
    /\ \E operation \in {1, 2}, position \in IOPositions,
          address \in IOAddresses, count \in IOCounts :
          /\ operation = 1 => count % 2 = 0
          /\ Commit(diskIO(EnsureMeta(S, IOM, 1), operation, IOM, position,
                           address, count),
                    "diskIO", <<operation, position, address, count>>,
                    IF last.op = "init" THEN <<0, 0, 0, 0, -1>>
                    ELSE last.pa \o <<ErrOf(last.tr)>>, 0)
    /\ nops' = nops + 1

IOFetchDone ==
    /\ IOM \in DOMAIN meta
    /\ meta[IOM].xhr.st = "pending"
    /\ \E status \in {206, 416} :
          Commit(getData(S, IOM, status,
                         ImageBlock(Trunc(meta[IOM].xhr.position, IO_BLOCKSIZE))),
                 "getData", last.pa, last.data, 0)
    /\ UNCHANGED nops

NextIO == IOStart \/ IOFetchDone

SpecIO == InitIO /\ [][NextIO]_vars

(***************************************************************************)
(* Commands to drives that exist and to drives that do not: the guest      *)
(* selects a drive and writes any RK11 function, or one of the RP11        *)
(* functions below, with go.                                               *)
(***************************************************************************)
NXDRKAccesses ==
    {<<\o17777404, 2 * f + 1, 0>> : f \in 0..7}
    \cup {<<\o17777412, \hE000, 0>>, <<\o17777412, 0, 0>>,
          <<\o17777406, \hFFFF, 0>>}

NXDRPAccesses ==
    {<<\o17776700, d, 0>> : d \in {\o1, \o5, \o11, \o21, \o61, \o71}}
    \cup {<<\o17776710, 5, 0>>, <<\o17776710, 0, 0>>,
          <<\o17776702, \hFFFF, 0>>, <<\o17776700, -1, 0>>}

InitNXD ==
    /\ Init
    /\ active \in {"rk", "rp"}

NXDGuestRK ==
    /\ active = "rk" /\ nops < MaxOps
    /\ \E x \in NXDRKAccesses :
          Commit(accessRK11(S, x[1], x[2], x[3]), "accessRK11", x[1], x[2], x[3])
    /\ nops' = nops + 1

NXDGuestRP ==
    /\ active = "rp" /\ nops < MaxOps
    /\ \E x \in NXDRPAccesses :
          Commit(accessRP11(S, x[1], x[2], x[3]), "accessRP11", x[1], x[2], x[3])
    /\ nops' = nops + 1

NextNXD ==
    \/ NXDGuestRK
    \/ NXDGuestRP
    \/ TimerRk11Go
    \/ FetchDone
    \/ InterruptRun

SpecNXD == InitNXD /\ [][NextNXD]_vars

(***************************************************************************)
(* extractXHR on its own: one cache, driven with every status, requested   *)
(* block and response body of the sets below.                              *)
(***************************************************************************)
XM == <<"rk", 0>>

Statuses == {416, 200, 206, 0, 404}

BodyLengths == {0, 2, IO_BLOCKSIZE + 2}

\* the first bytes of the responses
BodyValues == {1, 2}

\* a response of len bytes, each byte with a value of its own
Body(len, v) == [i \in 1..len |-> v + 2 * (i - 1)]

InitXHR ==
    /\ Init
    /\ active = "rk"

ExtractStep ==
    /\ \E status \in Statuses, block \in 0..MaxBlock, len \in BodyLengths,
          v \in BodyValues :
          LET s0 == EnsureMeta(S, XM, 1)
              r  == extractXHR(status, Body(len, v), s0.meta[XM].cache, block)
          IN Commit([s0 EXCEPT !.meta[XM].cache = r.cache, !.res = r.r],
                    "extractXHR", status, block, len)
    /\ UNCHANGED nops

NextXHR == ExtractStep

SpecXHR == InitXHR /\ [][NextXHR]_vars

(***************************************************************************)
(* Sector transfers at the full size of the code: memory holds more than a *)
(* 512-byte sector and the first sectors of the image of drive 0 are in    *)
(* the cache, as after an earlier transfer and a RESET.  The guest         *)
(* programs the RK11 registers and starts a read or a write.               *)
(***************************************************************************)
BootM == <<"rk", 0>>

\* the image bytes 0 .. bytes - 1 as cache blocks
ImageCache(bytes) ==
    [b \in 0..((bytes - 1) \div IO_BLOCKSIZE) |-> ImageBlock(b)]

SectorMem ==
    [i \in 0..(SectorMemWords - 1) |-> 256 * (i % 250) + 255 - (i % 250)]

BootAccesses ==
    {<<\o17777404, d, 0>> : d \in {\h05, \h45, \h03}}
    \cup {<<\o17777406, d, 0>> : d \in {\hFF00, \hFFFF}}
    \cup {<<\o17777410, 4, 0>>, <<\o17777412, 1, 0>>}

InitBoot ==
    /\ InitDevices
    /\ meta = (BootM :> [NewMeta(1) EXCEPT !.cache = ImageCache(1024)])
    /\ mem = SectorMem
    /\ inflight = (BootM :> 0)
    /\ active = "rk"

BootGuest ==
    /\ nops < MaxOps
    /\ \E x \in BootAccesses :
          Commit(accessRK11(S, x[1], x[2], x[3]), "accessRK11", x[1], x[2], x[3])
    /\ nops' = nops + 1

NextBoot == BootGuest \/ TimerRk11Go \/ InterruptRun

SpecBoot == InitBoot /\ [][NextBoot]_vars

(***************************************************************************)
(* RL11 seeks and reads at the full size of the code: the guest writes     *)
(* dar, bar and mpr and starts seeks (function 3) and reads (function 6)   *)
(* on drive 0, whose image is in the cache for the sectors below.          *)
(***************************************************************************)
SeekM == <<"rl", 0>>

\* the 256-byte sectors of the image that are in the cache
SeekSectors == 0..7 \cup 80..83

\* the cache blocks that hold bytes of the sectors of set
ImageSectors(set) ==
    LET blocks == {b \in 0..((84 * 256) \div IO_BLOCKSIZE) :
                     \E sec \in set :
                        /\ (b + 1) * IO_BLOCKSIZE > sec * 256
                        /\ b * IO_BLOCKSIZE < (sec + 1) * 256}
    IN [b \in blocks |-> ImageBlock(b)]

SeekAccesses ==
    {<<\o17774400, 3 * 2, 0>>, <<\o17774400, 6 * 2, 0>>,
     <<\o17774402, 4, 0>>,
     <<\o17774404, 2, 0>>, <<\o17774404, \h85, 0>>,
     <<\o17774406, \hFF00, 0>>}

InitSeek ==
    /\ InitDevices
    /\ meta = (SeekM :> [NewMeta(1) EXCEPT !.cache = ImageSectors(SeekSectors)])
    /\ mem = SectorMem
    /\ inflight = (SeekM :> 0)
    /\ active = "rl"

SeekGuest ==
    /\ nops < MaxSeekOps
    /\ \E x \in SeekAccesses :
          Commit(accessRL11(S, x[1], x[2], x[3]), "accessRL11", x[1], x[2], x[3])
    /\ nops' = nops + 1

NextSeek == SeekGuest

SpecSeek == InitSeek /\ [][NextSeek]_vars

(***************************************************************************)
(* TM11 reads of a tape image at the full size of its records: the image   *)
(* of drive 0 is in the cache and starts with a 100-byte record or with a  *)
(* tape mark.  The guest writes mtbrc and mtcma and starts reads, with and *)
(* without interrupt enable.                                               *)
(***************************************************************************)
TapeM == <<"tm", 0>>

\* a record of 100 bytes between its two length words, then a tape mark
TapeRecord ==
    <<100, 0, 0, 0>> \o [k \in 1..100 |-> ((k * 7) % 251) + 1]
    \o <<100, 0, 0, 0>> \o <<0, 0, 0, 0>>

\* a tape mark, then a record of two bytes
TapeMark == <<0, 0, 0, 0>> \o <<2, 0, 0, 0, 17, 34, 2, 0, 0, 0>>

\* a length word of 0xFFFFFFFF (end of medium), then a record of two bytes
TapeEnd == <<255, 255, 255, 255>> \o <<2, 0, 0, 0, 17, 34, 2, 0, 0, 0>>

\* a length word of 0xFFFFFF00 (bit 31 set), then two bytes
TapeBadRecord == <<0, 255, 255, 255>> \o <<17, 34, 0, 255, 255, 255>>

\* the bytes of a tape image as cache blocks
TapeCache(bytes) ==
    [b \in 0..((Len(bytes) - 1) \div IO_BLOCKSIZE) |->
        [i \in 1..IO_BLOCKSIZE |->
            IF b * IO_BLOCKSIZE + i <= Len(bytes)
            THEN bytes[b * IO_BLOCKSIZE + i] ELSE 0]]

TapeAccesses ==
    {<<\o17772522, d, 0>> : d \in {\h6003, \h6043, \h6009}}
    \cup {<<\o17772524, d, 0>> : d \in {\hFF9C, \hFFCE}}
    \cup {<<\o17772526, 8, 0>>}

InitTape ==
    /\ InitDevices
    /\ \E tape \in {TapeRecord, TapeMark, TapeEnd, TapeBadRecord} :
          meta = (TapeM :> [NewMeta(1) EXCEPT !.cache = TapeCache(tape)])
    /\ mem = SectorMem
    /\ inflight = (TapeM :> 0)
    /\ active = "tm"

TapeGuest ==
    /\ nops < MaxOps
    /\ \E x \in TapeAccesses :
          Commit(accessTM11(S, x[1], x[2], x[3]), "accessTM11", x[1], x[2], x[3])
    /\ nops' = nops + 1

NextTape == TapeGuest \/ InterruptRun

SpecTape == InitTape /\ [][NextTape]_vars

(***************************************************************************)
(* The registers on their own: the guest reads and writes the registers of  *)
(* one controller through access_iopage in every access form, word and      *)
(* byte, at even and at odd addresses.                                      *)
(***************************************************************************)
RegDevices == {"rk", "rl", "rp", "tm", "ptr", "kw", "dl"}

RegAddresses(dev) ==
    CASE dev = "rk" -> {\o17777400, \o17777404, \o17777406, \o17777410, \o17777412}
      [] dev = "rl" -> {\o17774400, \o17774402, \o17774404, \o17774406}
      [] dev = "rp" -> {\o17776702, \o17776704, \o17776706, \o17776710,
                        \o17776734}
      [] dev = "tm" -> {\o17772520, \o17772524, \o17772526}
      [] dev = "ptr" -> {\o17777550, \o17777552}
      [] dev = "kw" -> {\o17777546}
      [] dev = "dl" -> {\o17777560, \o17777562}

\* a read, and two words to write; a byte write passes the low byte
RegData == {-1, \hA5C2, \h5A3C}

\* the drive selections of the guest: a drive that exists and one that does not
RegSelect(dev) ==
    IF dev = "rp" THEN {<<\o17776710, 1, 0>>, <<\o17776710, 7, 0>>} ELSE {}

RegAccesses(dev) ==
    {<<a + odd, IF b = 1 /\ d >= 0 THEN d % 256 ELSE d, b>> :
        a \in RegAddresses(dev), odd \in {0, 1}, d \in RegData, b \in {0, 1}}
    \cup RegSelect(dev)

InitReg ==
    /\ InitDevices
    /\ meta = << >>
    /\ mem = MemInit
    /\ inflight = << >>
    /\ active \in RegDevices

RegGuest ==
    /\ nops < MaxRegOps
    /\ \E x \in RegAccesses(active) :
          Commit(access_iopage(S, x[1], x[2], x[3]), "access_iopage",
                 x[1], x[2], x[3])
    /\ nops' = nops + 1

NextReg == RegGuest

SpecReg == InitReg /\ [][NextReg]_vars

(***************************************************************************)
(* The console receiver: the guest reads and writes rcsr and reads rbuf,    *)
(* the terminal hands characters to dl11Input once the first access has     *)
(* created unit 0, and the guest may execute RESET.                         *)
(***************************************************************************)
DlAccesses ==
    {<<\o17777560, d, 0>> : d \in {\h40, 0, -1}}
    \cup {<<\o17777562 + odd, -1, b>> : odd \in {0, 1}, b \in {0, 1}}

\* the characters typed
DlChars == {65, 66, 13}

InitDL ==
    /\ InitDevices
    /\ meta = << >>
    /\ mem = MemInit
    /\ inflight = << >>
    /\ active = "dl"

DlGuest ==
    /\ active = "dl" /\ nops < MaxOps
    /\ \E x \in DlAccesses :
          Commit(access_iopage(S, x[1], x[2], x[3]), "access_iopage",
                 x[1], x[2], x[3])
    /\ nops' = nops + 1

\* the keyboard callback registered by dl11_initialize: last.pa is the unit
\* and last.data the character
DlInput ==
    /\ active = "dl" /\ nops < MaxOps
    /\ \E unit \in DOMAIN DL11, ch \in DlChars :
          Commit(dl11Input(S, unit, ch), "dl11Input", unit, ch, 0)
    /\ nops' = nops + 1

NextDL == DlGuest \/ DlInput \/ Reset

SpecDL == InitDL /\ [][NextDL]_vars

(***************************************************************************)
(* diskIO at the end of memory: writes, reads and checks started at the     *)
(* last words of memory and just behind them.  last.pa is <<operation,      *)
(* position, address, count>> of the transfer, as above.                    *)
(***************************************************************************)
NXMAddresses == {2 * MemWords - 4, 2 * MemWords - 2, 2 * MemWords}

NXMCounts == {1, 2, 4, 6}

NXMStart ==
    /\ nops < MaxNxmXfers
    /\ IOM \in DOMAIN meta => meta[IOM].xhr.st # "pending"
    /\ \E operation \in {1, 2, 3}, position \in IOPositions,
          address \in NXMAddresses, count \in NXMCounts :
          /\ operation \in {1, 3} => count % 2 = 0
          /\ Commit(diskIO(EnsureMeta(S, IOM, 1), operation, IOM, position,
                           address, count),
                    "diskIO", <<operation, position, address, count>>,
                    <<0, 0, 0, 0, -1>>, 0)
    /\ nops' = nops + 1

NextNXM == NXMStart \/ IOFetchDone

SpecNXM == InitIO /\ [][NextNXM]_vars

(***************************************************************************)
(* RL11 functions seen to their end: the guest programs the RL11, every     *)
(* block request is answered with the block asked for, with 416 or with an  *)
(* error status, and the CPU takes the entries off the interrupt queue and  *)
(* runs the callback of each.  The requests and the queue are served        *)
(* fairly.                                                                  *)
(***************************************************************************)
RlCompletions == {<<206, IO_BLOCKSIZE>>, <<416, 0>>, <<404, 0>>}

InitRL ==
    /\ InitDevices
    /\ meta = << >>
    /\ mem = MemInit
    /\ inflight = << >>
    /\ active = "rl"

\* the guest sets the word count before it starts a function: with mpr 0 a
\* transfer would move 65536 words
RlGuest ==
    /\ nops < MaxOps
    /\ \E x \in RLAccesses :
          /\ x[1] = \o17774400 => rl11.mpr # 0
          /\ Commit(accessRL11(S, x[1], x[2], x[3]), "accessRL11",
                    x[1], x[2], x[3])
    /\ nops' = nops + 1

\* the request of an RL11 drive reaches readyState DONE
RlFetchDone ==
    /\ \E m \in DOMAIN meta :
          /\ meta[m].xhr.st = "pending"
          /\ \E x \in RlCompletions :
                Commit(getData(S, m, x[1], Response(x[2])), "getData",
                       x[1], x[2], 0)
    /\ UNCHANGED nops

NextRL == RlGuest \/ RlFetchDone \/ InterruptRun

\* RlFetchDone is enabled exactly when a request is pending
RlFetchPending == \E m \in DOMAIN meta : meta[m].xhr.st = "pending"

\* weak fairness of RlFetchDone, written with its enabling condition
RlFetchesComplete == []<>(~RlFetchPending) \/ []<><<RlFetchDone>>_vars

SpecRL ==
    InitRL /\ [][NextRL]_vars /\ WF_vars(InterruptRun) /\ RlFetchesComplete

(***************************************************************************)
(* TM11 spacing: the tape of drive 0 holds a record of three bytes, a       *)
(* record of two bytes and a tape mark.  The image is in the cache or still *)
(* on the server; the guest writes mtbrc, starts space-forward and          *)
(* space-reverse commands and reads mts, and the block requests complete    *)
(* with the part of the image they asked for, with the whole image, or      *)
(* with an error.                                                           *)
(***************************************************************************)
\* a record of len bytes: length word, data padded to even, length word
SpaceRecord(len) ==
    <<len, 0, 0, 0>> \o [k \in 1..(len + (len % 2)) |-> IF k <= len THEN 16 + k ELSE 0]
    \o <<len, 0, 0, 0>>

SpaceTape == SpaceRecord(3) \o SpaceRecord(2) \o <<0, 0, 0, 0>>

SpaceAccesses ==
    {<<\o17772522, d, 0>> : d \in {\h6009, \h600B}}
    \cup {<<\o17772524, d, 0>> : d \in {\hFFFF, \hFFFE}}
    \cup {<<\o17772520, -1, 0>>}

\* <<status, body>> of the completions of a request for block b of the image
SpaceCompletions(b) ==
    {<<200, SpaceTape>>, <<404, << >> >>}
    \cup (IF b >= 0 /\ b * IO_BLOCKSIZE < Len(SpaceTape)
          THEN {<<206, [k \in 1..IO_BLOCKSIZE |->
                          IF b * IO_BLOCKSIZE + k <= Len(SpaceTape)
                          THEN SpaceTape[b * IO_BLOCKSIZE + k] ELSE 0]>>}
          ELSE {<<416, << >> >>})

InitSpace ==
    /\ InitDevices
    /\ \E c \in {TapeCache(SpaceTape), << >>} :
          meta = (TapeM :> [NewMeta(1) EXCEPT !.cache = c])
    /\ mem = SectorMem
    /\ inflight = (TapeM :> 0)
    /\ active = "tm"

SpaceGuest ==
    /\ nops < MaxSpaceOps
    /\ \E x \in SpaceAccesses :
          Commit(access_iopage(S, x[1], x[2], x[3]), "access_iopage",
                 x[1], x[2], x[3])
    /\ nops' = nops + 1

\* the request of the tape reaches readyState DONE
SpaceFetchDone ==
    /\ meta[TapeM].xhr.st = "pending"
    /\ \E x \in SpaceCompletions(Trunc(meta[TapeM].xhr.position, IO_BLOCKSIZE)) :
          Commit(getData(S, TapeM, x[1], x[2]), "getData", x[1], Len(x[2]), 0)
    /\ UNCHANGED nops

NextSpace == SpaceGuest \/ SpaceFetchDone

\* every request that is sent is answered: weak fairness of SpaceFetchDone
SpaceFetchesComplete ==
    []<>(meta[TapeM].xhr.st # "pending") \/ []<><<SpaceFetchDone>>_vars

\* the guest program runs on while it has accesses to make, and every
\* request is answered
SpecSpace ==
    InitSpace /\ [][NextSpace]_vars /\ WF_vars(SpaceGuest) /\ SpaceFetchesComplete

(***************************************************************************)
(* Disk addresses in and out of range: the guest of one disk controller     *)
(* writes the disk address registers with a cylinder, a surface or a sector *)
(* beyond the geometry of the drive, or with address 0, and starts reads    *)
(* and writes of one word, with and without interrupt enable.               *)
(***************************************************************************)
RangeAccesses(dev) ==
    CASE dev = "rk" ->
         {<<\o17777412, d, 0>> : d \in {0, \h000C, \h1960}}
         \cup {<<\o17777404, d, 0>> : d \in {\h05, \h03, \h45}}
         \cup {<<\o17777406, \hFFFF, 0>>}
      [] dev = "rl" ->
         {<<\o17774404, d, 0>> : d \in {0, \h0028, \h8000}}
         \cup {<<\o17774400, d, 0>> : d \in {\h0C, \h4C, \h0A, \h020C}}
         \cup {<<\o17774406, \hFFFF, 0>>}
      [] dev = "rp" ->
         {<<\o17776706, d, 0>> : d \in {0, \h0016, \h1300}}
         \cup {<<\o17776734, 815, 0>>}
         \cup {<<\o17776700, d, 0>> : d \in {\o71, \o61, \o171}}
         \cup {<<\o17776702, \hFFFF, 0>>}

InitRange ==
    /\ Init
    /\ active \in {"rk", "rl", "rp"}

\* the RL11 gets a command only with a word count in mpr
RangeGuest ==
    /\ nops < MaxOps
    /\ \E x \in RangeAccesses(active) :
          /\ x[1] = \o17774400 => rl11.mpr # 0
          /\ Commit(access_iopage(S, x[1], x[2], x[3]), "access_iopage",
                    x[1], x[2], x[3])
    /\ nops' = nops + 1

NextRange ==
    \/ RangeGuest
    \/ TimerRk11Go
    \/ FetchDone
    \/ InterruptRun

SpecRange == InitRange /\ [][NextRange]_vars

\* ------------------------------------------------------------------
\* RK11 transfers at the end of the disk: the highest cylinder and sector
\* rk11_go accepts, with word counts up to 65535, on cached images
\* ------------------------------------------------------------------

\* the words of one 8 KB page, which every unibus page maps to here
PageWords == 4096

\* the transfers: drive, cylinder and sector they start at and their word
\* count, the first being the longest one at the highest address accepted
RkEndTransfers ==
    {<<6, 405, 11, 65535>>, <<3, 405, 11, 256>>, <<0, 405, 11, 255>>,
     <<0, 0, 0, 1>>, <<1, 202, 5, 300>>, <<5, 405, 0, 3072>>}

\* the blocks of the image that hold n words from sector number sector on
RkEndCache(sector, n) ==
    [b \in Trunc(sector * 512, IO_BLOCKSIZE)
             ..Trunc(sector * 512 + 2 * n - 1, IO_BLOCKSIZE) |-> ImageBlock(b)]

RkEndAccesses == {<<\o17777404, \h05, 0>>, <<\o17777406, \hFFFF, 0>>}

InitRkEnd ==
    \E st \in RkEndTransfers :
       /\ rk11 = [rkds |-> \o4700, rker |-> 0, rkcs |-> \o200,
                  rkwc |-> 65536 - st[4], rkba |-> 0,
                  rkda |-> st[1] * 8192 + st[2] * 16 + st[3]]
       /\ rl11 = [csr |-> \h81, bar |-> 0, dar |-> 0, mpr |-> 0, DAR |-> 0]
       /\ rp11 = [rpcs1 |-> \h880, rpwc |-> 0, rpba |-> 0, rpcs2 |-> 0,
                  rpda |-> [d \in 0..7 |-> 0],
                  rpds |-> [d \in 0..7 |-> IF d < 5 THEN \h1180 ELSE 0],
                  rper1 |-> [d \in 0..7 |-> 0], rpof |-> [d \in 0..7 |-> 0],
                  rpdc |-> [d \in 0..7 |-> 0], rper3 |-> [d \in 0..7 |-> 0],
                  rpas |-> 0, rpcs3 |-> 0]
       /\ tm11 = [mts |-> \h65, mtc |-> \h6080, mtbrc |-> 0, mtcma |-> 0]
       /\ ptr11 = [prs |-> 0, pdb |-> 0, name |-> "", meta |-> -1]
       /\ kw11 = [csr |-> 0, timerId |-> 0]
       /\ lp11 = [lpcs |-> 0]
       /\ DL11 = << >>
       /\ CPU = [PIR |-> 0, stackLimit |-> \hFF, CPU_Error |-> 0,
                 interruptQueue |-> {}, MMR0 |-> 0, MMR3 |-> \h20,
                 mmuEnable |-> 0, mmuMode |-> 0, mmuLastPage |-> 0,
                 displayPhysical |-> 0, unibusMap |-> [i \in 0..31 |-> 0]]
       /\ timers = [rk11_go |-> 0, kw11 |-> 0]
       /\ last = [op |-> "init", pa |-> 0, data |-> 0, byteFlag |-> 0,
                  res |-> 0, tr |-> << >>, pp |-> << >>]
       /\ nops = 0
       /\ nfetch = 0
       /\ meta = (<<"rk", st[1]>> :>
                    [NewMeta(1) EXCEPT
                       !.cache = RkEndCache(st[2] * RK_SECTORS[st[1] + 1] + st[3], st[4])])
       /\ mem = [i \in 0..(PageWords - 1) |-> 0]
       /\ inflight = (<<"rk", st[1]>> :> 0)
       /\ active = "rk"

RkEndGuest ==
    /\ nops < MaxOps
    /\ \E x \in RkEndAccesses :
          Commit(accessRK11(S, x[1], x[2], x[3]), "accessRK11", x[1], x[2], x[3])
    /\ nops' = nops + 1

NextRkEnd == RkEndGuest \/ TimerRk11Go \/ InterruptRun

SpecRkEnd == InitRkEnd /\ [][NextRkEnd]_vars

\* ------------------------------------------------------------------
\* Properties
\* ------------------------------------------------------------------

\* the metadata object the first event of a handler's trace is about
FirstUnit(l) == <<l.tr[1][2], l.tr[1][3]>>

\* the value a register write stores into a register holding original
Written(l, original) == insertData(original, l.pa, l.data, l.byteFlag)

IsWrite(l, op, register) ==
    l.op = op /\ l.data >= 0 /\ l.res >= 0 /\ WordOf(l.pa) = register

Starts == {"rk11_go", "rl11_go", "rp11_go", "tm11_go", "setTimeout", "diskIO"}

\* C1: every controller unit has at most one transfer in flight, a transfer
\* being in flight from the diskIO call that starts it until postProcess
\* reports it.
C1_OneTransferPerUnit == \A m \in DOMAIN inflight : inflight[m] <= 1

\* C2: a CSR write that requests a command while the controller's done or
\* ready bit is clear starts nothing: no go routine, no deferred go, no
\* diskIO, for the RK11, the RL11, the RP11 and the TM11.
C2_BusyIgnoresGo ==
    [][/\ (/\ IsWrite(last', "accessRK11", \o17777404)
           /\ And(Written(last', rk11.rkcs), 1) # 0
           /\ And(rk11.rkcs, \h80) = 0)
          => Names(last'.tr) \cap Starts = {}
       /\ (/\ IsWrite(last', "accessRL11", \o17774400)
           /\ And(Written(last', rl11.csr), \h80) = 0
           /\ And(rl11.csr, \h80) = 0)
          => Names(last'.tr) \cap Starts = {}
       /\ (/\ IsWrite(last', "accessRP11", \o17776700)
           /\ And(Written(last', rp11.rpcs1), 1) # 0
           /\ And(rp11.rpcs1, \h80) = 0)
          => Names(last'.tr) \cap Starts = {}
       /\ (/\ IsWrite(last', "accessTM11", \o17772522)
           /\ And(Written(last', tm11.mtc), 1) # 0
           /\ And(tm11.mtc, \h80) = 0)
          => Names(last'.tr) \cap Starts = {}]_vars

GuestAccesses ==
    {"accessRK11", "accessRL11", "accessRP11", "accessTM11", "accessPTR11"}

\* C3 as stated: on every controller, postProcess never runs inside the
\* register write that started the transfer.
C3_CompletionNeverInline ==
    last.op \in GuestAccesses => "postProcess" \notin Names(last.tr)

\* C3 as amended: an RK11 register write runs neither rk11_go nor diskIO nor
\* postProcess, and never turns the done bit on; the completion of an RK11
\* transfer runs in the rk11_go task or in a fetch completion.
C3_RkCompletionDeferred ==
    [][last'.op = "accessRK11"
         => /\ Names(last'.tr) \cap {"rk11_go", "diskIO", "postProcess"} = {}
            /\ And(rk11.rkcs, \h80) = 0 => And(rk11'.rkcs, \h80) = 0]_vars

\* an RK11 transfer whose blocks are all cached completes inside the
\* rk11_go task
C3_RkCacheHitInTask ==
    /\ last.op = "rk11_go"
    /\ \E i \in DOMAIN last.tr : last.tr[i][1] = "diskIO" /\ last.tr[i][5] > 0
    /\ "postProcess" \in Names(last.tr)
    /\ "fetch" \notin Names(last.tr)

\* C4: an rkcs write with go while done is set returns before rk11_go runs:
\* rkcs has done and go clear, rkwc, rkba, rkda, the caches and memory are as
\* before, one zero-delay task is queued, and rk11_go runs only in that task.
C4_RkGoDeferred ==
    [][/\ (/\ IsWrite(last', "accessRK11", \o17777404)
           /\ And(Written(last', rk11.rkcs), 1) # 0
           /\ And(rk11.rkcs, \h80) # 0)
          => /\ And(rk11'.rkcs, \h81) = 0
             /\ rk11'.rkwc = rk11.rkwc
             /\ rk11'.rkba = rk11.rkba
             /\ rk11'.rkda = rk11.rkda
             /\ meta' = meta
             /\ mem' = mem
             /\ timers'.rk11_go = timers.rk11_go + 1
             /\ Names(last'.tr) = {"setTimeout"}
       /\ "rk11_go" \in Names(last'.tr) => last'.op = "rk11_go"]_vars

\* the state right after an rkcs write with go was accepted
C4_RkGoQueued ==
    /\ IsWrite(last, "accessRK11", \o17777404)
    /\ And(last.data, 1) # 0
    /\ timers.rk11_go = 1
    /\ And(rk11.rkcs, \h81) = 0
    /\ rk11.rkwc = \hFFFD

Accepted == {416, 200, 206, 0}

\* the suspended request x can finish inside the block it asked for without
\* a memory fault
FitsBlock(x) ==
    /\ x.operation \in {1, 2, 4}
    /\ (x.position % IO_BLOCKSIZE) + x.count <= IO_BLOCKSIZE
    /\ x.operation \in {1, 2} => x.address + x.count <= 2 * MemWords

\* the events of tr from the last diskIO or getData event on
LastRun(tr) ==
    LET starts == {i \in DOMAIN tr : tr[i][1] \in {"diskIO", "getData"}}
        from   == IF starts = {} THEN 1
                  ELSE CHOOSE i \in starts : \A j \in starts : j <= i
    IN SubSeq(tr, from, Len(tr))

\* C5: a transfer that crosses from a present block into an absent one issues
\* one fetch and returns without postProcess; when that fetch completes with
\* an accepted status the remainder is moved and postProcess is called once,
\* with err 0 and residual count 0.
C5_CrossingCompletes ==
    [][/\ \A m \in DOMAIN meta' :
            (/\ meta'[m].xhr.st = "pending" /\ meta'[m].xhr.crossing
             /\ (m \notin DOMAIN meta \/ meta[m].xhr # meta'[m].xhr)
             /\ last'.op # "reset_iopage")
            => /\ Count(LastRun(last'.tr), "fetch") = 1
               /\ Count(LastRun(last'.tr), "postProcess") = 0
       /\ (/\ last'.op = "getData"
           /\ last'.pa \in Accepted
           /\ meta[FirstUnit(last')].xhr.crossing
           /\ FitsBlock(meta[FirstUnit(last')].xhr))
          => /\ Len(last'.tr) >= 2
             /\ last'.tr[2] = <<"postProcess", FirstUnit(last')[1],
                                FirstUnit(last')[2], 0, 0>>]_vars

\* C6: extractXHR never changes a block that is already present: whatever
\* the status, the requested index and the response bytes, every block that
\* was in the cache before the call is in it afterwards with the same bytes.
C6_PresentBlocksKept ==
    [][last'.op = "extractXHR"
         => \A m \in DOMAIN meta :
               \A b \in DOMAIN meta[m].cache :
                  /\ b \in DOMAIN meta'[m].cache
                  /\ meta'[m].cache[b] = meta[m].cache[b]]_vars

\* a whole-file response longer than a block has been extracted over a
\* block 0 that holds a shorter body
C6_PresentBlockSkipped ==
    /\ last.op = "extractXHR"
    /\ last.pa = 200
    /\ last.byteFlag = IO_BLOCKSIZE + 2
    /\ 0 \in DOMAIN meta[XM].cache
    /\ meta[XM].cache[0][IO_BLOCKSIZE] = 0
    /\ 1 \in DOMAIN meta[XM].cache
    /\ meta[XM].cache[1][1] # 0

\* a RESET, or a controller clear that runs a device reset routine
IsResetStep(l) == l.op = "reset_iopage" \/ "rp11_init" \in Names(l.tr)

\* C7 as stated: RESET and the device resets leave the cached blocks of every
\* device in place, the paper tape reader included.
C7_ResetKeepsAllCaches ==
    [][IsResetStep(last')
         => /\ \A m \in DOMAIN meta :
                  m[1] # "ptr" => /\ m \in DOMAIN meta'
                                  /\ meta'[m].cache = meta[m].cache
            /\ ptr11.meta >= 0
                  => \A b \in DOMAIN meta[PtrMeta(ptr11.meta)].cache :
                        /\ ptr11'.meta >= 0
                        /\ PtrMeta(ptr11'.meta) \in DOMAIN meta'
                        /\ b \in DOMAIN meta'[PtrMeta(ptr11'.meta)].cache
                        /\ meta'[PtrMeta(ptr11'.meta)].cache[b]
                              = meta[PtrMeta(ptr11.meta)].cache[b]]_vars

\* C7 as amended: RESET and the device resets leave the cached blocks of the
\* RK11, RL11, RP11 and TM11 drives in place.
C7_ResetKeepsDiskCaches ==
    [][IsResetStep(last')
         => \A m \in DOMAIN meta :
               m[1] # "ptr" => /\ m \in DOMAIN meta'
                               /\ meta'[m].cache = meta[m].cache]_vars

\* a RESET has run over a drive with cached blocks
C7_ResetWithCache ==
    /\ last.op = "reset_iopage"
    /\ \E m \in DOMAIN meta : m[1] # "ptr" /\ DOMAIN meta[m].cache # {}

\* the controllers a reset step resets, and their interrupt vectors
ResetDevices(l) == IF l.op = "reset_iopage" THEN Devices ELSE {"rp"}

Vector(dev) ==
    CASE dev = "rk" -> \o220
      [] dev = "rl" -> \o160
      [] dev = "rp" -> \o254
      [] dev = "tm" -> \o224
      [] dev = "ptr" -> \o70

\* C8: a reset of a controller aborts the block fetch in flight for it and
\* removes the pending interrupts at its vector; the completion of a fetch
\* that was in flight at a RESET neither resumes the transfer nor calls
\* postProcess.
C8_ResetAbortsFetch ==
    [][/\ IsResetStep(last')
          => \A dev \in ResetDevices(last') :
                (\E m \in DOMAIN meta : m[1] = dev /\ meta[m].xhr.st = "pending")
                => /\ \A m \in DOMAIN meta' :
                         m[1] = dev => meta'[m].xhr.st # "pending"
                   /\ \A e \in CPU'.interruptQueue : e.vector # Vector(dev)
       /\ (last'.op = "getData" /\ meta[FirstUnit(last')].xhr.stale)
          => Names(last'.tr) = {"getData"}]_vars

\* C9: once a RESET has come during a suspended transfer, the completion of
\* the fetch that transfer waited for leaves the controller's word-count and
\* bus-address registers as they are (stated for the RK11 and the RP11, whose
\* reset routines assign these registers).
C9_LateFetchKeepsRegisters ==
    [][(last'.op = "getData" /\ meta[FirstUnit(last')].xhr.stale)
         => /\ rk11'.rkwc = rk11.rkwc /\ rk11'.rkba = rk11.rkba
            /\ rp11'.rpwc = rp11.rpwc /\ rp11'.rpba = rp11.rpba]_vars

\* C10: right after reset_iopage the RK11 is done, the RL11 ready, and the
\* TM11 ready, on line and at the beginning of tape.
C10_ResetValues ==
    last.op = "reset_iopage"
       => /\ rk11.rkcs = \o200
          /\ rl11.csr = \h80
          /\ tm11.mtc = \h6080
          /\ tm11.mts = \h65

\* a RESET has come while a drive was busy waiting for a block
C10_ResetWhileBusy ==
    /\ last.op = "reset_iopage"
    /\ nops >= 2
    /\ \E m \in DOMAIN meta : meta[m].xhr.st = "pending" /\ m[1] # "ptr"

\* byte a of memory and byte p of the image held in a cache
MemByte(a) ==
    IF a % 2 = 0 THEN mem[a \div 2] % 256 ELSE mem[a \div 2] \div 256

ImageByte(c, p) == CacheGet(c, Trunc(p, IO_BLOCKSIZE), p % IO_BLOCKSIZE)

\* the transfer under way has just been reported with err 0
IODone(operation) ==
    /\ last.op \in {"diskIO", "getData"}
    /\ last.pa[1] = operation
    /\ ErrOf(last.tr) = 0

C12_WriteReadRoundTrip ==
    (/\ IODone(2)
     /\ last.data[1] = 1 /\ last.data[5] = 0
     /\ last.data[2] = last.pa[2] /\ last.data[4] = last.pa[4]
     /\ \/ last.data[3] + last.pa[4] <= last.pa[3]
        \/ last.pa[3] + last.pa[4] <= last.data[3])
       => \A k \in 0..(last.pa[4] - 1) :
             MemByte(last.pa[3] + k) = MemByte(last.data[3] + k)

\* a round trip over a block boundary, each half of which waited for a block
C12_RoundTripAcrossBlocks ==
    /\ IODone(2)
    /\ last.data[1] = 1 /\ last.data[5] = 0
    /\ last.data[2] = IO_BLOCKSIZE - 2 /\ last.pa[2] = IO_BLOCKSIZE - 2
    /\ last.data[4] = 4 /\ last.pa[4] = 4
    /\ last.data[3] # last.pa[3]
    /\ nfetch >= 2

\* C13: a command to a drive that does not exist starts no transfer: rk11_go
\* for an RK11 drive whose TRACKS entry is 0 calls no diskIO and sets NXD in
\* rker, and a go written to rpcs1 while the selected RP11 drive has DVA
\* clear runs neither rp11_go nor diskIO.
C13_NoDriveNoTransfer ==
    [][/\ (/\ last'.op = "rk11_go"
           /\ RK_TRACKS[(Shr(rk11.rkda, 13) % 8) + 1] = 0)
          => /\ Names(last'.tr) \cap {"diskIO", "fetch"} = {}
             /\ And(rk11'.rker, \h80) # 0
       /\ (/\ IsWrite(last', "accessRP11", \o17776700)
           /\ And(Written(last', rp11.rpcs1), 1) # 0
           /\ And(rp11.rpds[rp11.rpcs2 % 8], \h100) = 0)
          => Names(last'.tr) \cap {"rp11_go", "diskIO", "fetch"} = {}]_vars

\* rk11_go has run a read for drive 7
C13_ReadOnMissingDrive ==
    /\ last.op = "rk11_go"
    /\ last.tr[1] = <<"rk11_go", "rk", 7, 2, 0>>
    /\ And(rk11.rker, \h8080) = \h8080

\* the RK11 transfers suspended on a block fetch that no RESET has overtaken
RkSuspended ==
    {m \in DOMAIN meta : /\ m[1] = "rk"
                         /\ meta[m].xhr.st = "pending"
                         /\ ~meta[m].xhr.stale}

\* C14: in every state of an RK11 data transfer, also while it is suspended
\* on a block fetch, rkwc equals (0x10000 - remaining word count) & 0xFFFF,
\* the remaining word count being the words the transfer engine has not yet
\* moved.
C14_RkwcTracksRemaining ==
    \A m \in RkSuspended :
        rk11.rkwc = (65536 - Shr(meta[m].xhr.count, 1)) % 65536

\* the completions of an RK11 transfer without error in the step just taken
RkCompleted(l) ==
    {d \in 0..7 : \E i \in DOMAIN l.tr : l.tr[i] = <<"postProcess", "rk", d, 0, 0>>}

\* the disk-address bits of sector number n of a drive
RkSectorBits(drive, n) ==
    Or(Trunc(n, RK_SECTORS[drive + 1]) * 16, Rem(n, RK_SECTORS[drive + 1]))

\* C15: after a completed RK11 transfer of n words started at cylinder c,
\* sector s, rkda keeps its drive bits and holds the cylinder and sector of
\* the sector right after the last word transferred, counted with
\* SECTORS[drive] sectors per track, also when n is not a multiple of 256.
C15_RkdaAfterTransfer ==
    [][\A d \in RkCompleted(last') :
          LET start == (Shr(rk11.rkda, 4) % 512) * RK_SECTORS[d + 1]
                          + (rk11.rkda % 16)
              n     == (65536 - rk11.rkwc) % 65536
          IN rk11'.rkda = Or(And(rk11.rkda, \hE000),
                             RkSectorBits(d, start + ((n + 255) \div 256)))]_vars

\* the rk11_go task is about to start the boot-sector read: function 2 (read)
\* of 256 words from cylinder 0, sector 0 of drive 0 to address 0
BootRead ==
    /\ timers.rk11_go > 0
    /\ rk11.rkba = 0 /\ rk11.rkwc = \hFF00 /\ rk11.rkda = 0
    /\ Shr(rk11.rkcs, 1) % 8 = 2 /\ And(rk11.rkcs, \h30) = 0

\* memory 0 .. 511 holds the first 512 bytes of the image c
BootLoaded(c) == \A k \in 0..511 : MemByte(k) = ImageByte(c, k)

\* C16: the RK11 boot-sector read (drive 0 cached, rkba = 0, rkwc = 0xFF00,
\* rkda = 0, rkcs written with 0x05) ends with the 512 bytes at image
\* offset 0 in memory 0..511, rkwc = 0, rkcs bit 13 set and an interrupt
\* queued at vector 0o220 with priority 5; the command end that entry
\* delivers sets rkcs bit 7.
C16_BootSectorRead ==
    [][/\ (last'.op = "rk11_go" /\ BootRead)
          => /\ BootLoaded(meta[BootM].cache)'
             /\ rk11'.rkwc = 0
             /\ And(rk11'.rkcs, \h2000) # 0
             /\ \E e \in CPU'.interruptQueue :
                   /\ e.vector = \o220 /\ e.priority = 5 * 32
                   /\ e.callback = "rk11_commandEnd"
       /\ (/\ last'.op = "interrupt" /\ last'.pa = \o220 /\ last'.data = 0
           /\ rk11.rkba = 512 /\ rk11.rkwc = 0 /\ And(rk11.rkcs, \h2000) # 0)
          => /\ And(rk11'.rkcs, \h2080) = \h2080
             /\ rk11'.rkwc = 0]_vars

C16_BootSectorDone ==
    /\ last.op = "interrupt" /\ last.pa = \o220
    /\ rk11.rkba = 512 /\ rk11.rkwc = 0 /\ rk11.rkda = 1
    /\ And(rk11.rkcs, \h2080) = \h2080
    /\ BootLoaded(meta[BootM].cache)

\* the step just taken ended an RK11 command: rk11_go finished it without a
\* transfer under way, or a transfer was reported to rk11_end
RkCommandEnded(l) ==
    \/ l.op = "rk11_go" /\ Count(l.tr, "fetch") = 0
    \/ /\ l.op = "getData" /\ l.tr[1][2] = "rk"
       /\ Count(l.tr, "postProcess") > 0

\* NXD, NXC, NXS, TE and NXM of rker
RkHardErrors == \h80 + \h40 + \h20 + \h100 + \h400

\* C17: whenever an RK11 command ends with NXD, NXC, NXS, TE or NXM set in
\* rker, the error-summary bit (bit 15) of rkcs is set as well.
C17_HardErrorSummary ==
    [][(RkCommandEnded(last') /\ And(rk11'.rker, RkHardErrors) # 0)
          => And(rk11'.rkcs, \h8000) # 0]_vars

\* the step just taken wrote function fn with go and interrupt enable clear
\* to the RL11 csr
RlGo(l, fn) ==
    /\ IsWrite(l, "accessRL11", \o17774400)
    /\ And(l.data, \hC0) = 0
    /\ Shr(l.data, 1) % 8 = fn

\* the image byte offset of the sector dar addresses
RlOffset == (Shr(rl11.dar, 6) * 40 + (rl11.dar % 64)) * 256

\* a read with mpr = 0xFF00 that starts now finds its sectors in the cache
\* and its target in memory
RlReadReady ==
    /\ rl11.mpr = \hFF00
    /\ Shr(rl11.dar, 6) < 1024 /\ rl11.dar % 64 < 40
    /\ And(rl11.csr, \h30) = 0
    /\ rl11.bar + 512 <= 2 * SectorMemWords
    /\ meta[SeekM].xhr.st # "pending"
    /\ \A k \in 0..511 :
          Trunc(RlOffset + k, IO_BLOCKSIZE) \in DOMAIN meta[SeekM].cache

\* the step copies bytes image bytes from RlOffset on to memory at bar and
\* changes no other byte of memory
RlMoved(bytes) ==
    \A a \in 0..(2 * SectorMemWords - 1) :
        MemByte(a)' = IF a >= rl11.bar /\ a < rl11.bar + bytes
                      THEN ImageByte(meta[SeekM].cache, RlOffset + (a - rl11.bar))
                      ELSE MemByte(a)

TapeReadAtStart(l) ==
    /\ IsWrite(l, "accessTM11", \o17772522)
    /\ Shr(l.data, 1) % 8 = 1 /\ l.data % 2 = 1
    /\ And(l.data, \h1330) = 0
    /\ And(tm11.mtc, \h80) # 0
    /\ meta[TapeM].position = 0
    /\ meta[TapeM].xhr.st # "pending"

\* the tape image c starts with a record of len bytes
TapeStartsWith(c, len) ==
    /\ CacheWord(c, 0, 0) = len
    /\ ImageByte(c, 2) = 0 /\ ImageByte(c, 3) = 0

\* the step copies bytes bytes of the image from offset 4 on to memory at
\* mtcma and changes no other byte of memory
TapeMoved(bytes) ==
    \A a \in 0..(2 * SectorMemWords - 1) :
        MemByte(a)' = IF a >= tm11.mtcma /\ a < tm11.mtcma + bytes
                      THEN ImageByte(meta[TapeM].cache, 4 + (a - tm11.mtcma))
                      ELSE MemByte(a)

TapeInterrupt(q) ==
    \E e \in q : /\ e.vector = \o224 /\ e.priority = 5 * 32
                 /\ e.callback = "tm11_commandEnd"

\* C19: with the tape at position 0 holding a 100-byte record and
\* mtbrc = (0x10000 - 100) & 0xFFFF, a read (function 1 with go) copies the
\* 100 payload bytes to memory at mtcma, leaves the position at 108 and
\* mtbrc at 0 and signals completion at vector 0o224 with priority 5.
C19_ShortRecordRead ==
    [][(/\ TapeReadAtStart(last')
        /\ TapeStartsWith(meta[TapeM].cache, 100)
        /\ tm11.mtbrc = \hFF9C)
          => /\ TapeMoved(100)
             /\ meta'[TapeM].position = 108
             /\ tm11'.mtbrc = 0
             /\ TapeInterrupt(CPU'.interruptQueue)]_vars

\* C19, amended: the same read copies the 100 payload bytes, leaves the
\* position at 108, mtbrc at 0 and mtcma advanced by 100; when the command
\* was written with interrupt enable it queues the completion at vector
\* 0o224 with priority 5, and otherwise it sets ready inside the register
\* write and queues nothing.
C19_ShortRecordReadIE ==
    [][(/\ TapeReadAtStart(last')
        /\ TapeStartsWith(meta[TapeM].cache, 100)
        /\ tm11.mtbrc = \hFF9C)
          => /\ TapeMoved(100)
             /\ meta'[TapeM].position = 108
             /\ tm11'.mtbrc = 0
             /\ tm11'.mtcma = tm11.mtcma + 100
             /\ IF And(last'.data, \h40) # 0
                THEN /\ TapeInterrupt(CPU'.interruptQueue)
                     /\ And(tm11'.mtc, \h80) = 0
                ELSE /\ CPU'.interruptQueue = CPU.interruptQueue
                     /\ And(tm11'.mtc, \h80) # 0 /\ tm11'.mts % 2 = 1]_vars

\* the read of the 100-byte record to address 8 has queued its completion
C19_RecordReadQueued ==
    /\ last.op = "accessTM11" /\ last.data = \h6043
    /\ TapeStartsWith(meta[TapeM].cache, 100)
    /\ meta[TapeM].position = 108
    /\ tm11.mtbrc = 0 /\ tm11.mtcma = 108
    /\ TapeInterrupt(CPU.interruptQueue)
    /\ \A k \in 0..99 : MemByte(8 + k) = ImageByte(meta[TapeM].cache, 4 + k)

\* the command started by the step has completed: ready is set inside the
\* register write, or with interrupt enable the completion is queued
TapeCommandDone ==
    IF And(last'.data, \h40) # 0
    THEN TapeInterrupt(CPU'.interruptQueue)
    ELSE And(tm11'.mtc, \h80) # 0 /\ tm11'.mts % 2 = 1

\* C20: a read issued with the tape at position 0, where a zero-length
\* record (a tape mark) is stored, sets EOF in mts, leaves the position of
\* the unit at 2, moves no data to memory and completes the command.
C20_TapeMarkRead ==
    [][(TapeReadAtStart(last') /\ TapeStartsWith(meta[TapeM].cache, 0))
          => /\ And(tm11'.mts, \h4000) # 0
             /\ meta'[TapeM].position = 2
             /\ mem' = mem
             /\ TapeCommandDone]_vars

\* C20, amended: the same read sets EOF in mts, leaves the position of the
\* unit at 4, behind the four bytes of the zero length word, moves no data
\* to memory, leaves mtbrc and mtcma alone and completes the command.
C20_TapeMarkReadTo4 ==
    [][(TapeReadAtStart(last') /\ TapeStartsWith(meta[TapeM].cache, 0))
          => /\ And(tm11'.mts, \h4000) # 0
             /\ meta'[TapeM].position = 4
             /\ mem' = mem
             /\ Count(last'.tr, "diskIO") = 1
             /\ tm11'.mtbrc = tm11.mtbrc /\ tm11'.mtcma = tm11.mtcma
             /\ TapeCommandDone]_vars

\* a read has just met the tape mark at the start of the tape
C20_TapeMarkSeen ==
    /\ IsWrite(last, "accessTM11", \o17772522) /\ last.data = \h6003
    /\ TapeStartsWith(meta[TapeM].cache, 0)
    /\ meta[TapeM].position = 4
    /\ And(tm11.mts, \h4000) # 0
    /\ And(tm11.mtc, \h80) # 0
    /\ mem = SectorMem

\* the step just taken wrote function fn with go to mtc while the controller
\* was ready and no fetch was pending for the tape of drive 0
TapeGo(l, fn) ==
    /\ IsWrite(l, "accessTM11", \o17772522)
    /\ Shr(l.data, 1) % 8 = fn /\ l.data % 2 = 1
    /\ And(l.data, \h1330) = 0
    /\ And(tm11.mtc, \h80) # 0
    /\ meta[TapeM].xhr.st # "pending"

\* the four bytes at position p of the image c are in the cache and hold a
\* length that is zero or has bit 31 set
TapeMarkAt(c, p) ==
    /\ \A k \in 0..3 : Trunc(p + k, IO_BLOCKSIZE) \in DOMAIN c
    /\ \/ \A k \in 0..3 : ImageByte(c, p + k) = 0
       \/ ImageByte(c, p + 3) >= 128

\* C21: whenever the 32-bit little-endian record length decoded by op 4 is
\* zero or has bit 31 set (0xFFFFFFFF included), a TM11 read or spacing
\* command takes it for a tape mark or the end of the medium: it sets EOF in
\* mts and starts no data transfer for that record.
C21_BadLengthIsTapeMark ==
    [][((TapeGo(last', 1) \/ TapeGo(last', 4))
        /\ TapeMarkAt(meta[TapeM].cache, meta[TapeM].position))
          => /\ And(tm11'.mts, \h4000) # 0
             /\ \A i \in DOMAIN last'.tr :
                   last'.tr[i][1] = "diskIO" => last'.tr[i][4] # 2
             /\ mem' = mem]_vars

\* the access just made was a word access to an odd address
OddWord(l) == l.op = "access_iopage" /\ l.byteFlag = 0 /\ l.pa % 2 = 1

\* the handler just run called trap(vector, code)
Trapped(l, vector, code) ==
    \E i \in DOMAIN l.tr :
       l.tr[i][1] = "trap" /\ l.tr[i][4] = vector /\ l.tr[i][5] = code

\* C22: every word access (byte flag clear), read or write, to an odd address
\* of a device register on the I/O page returns the result of trap(4, ...)
\* instead of a register value.
C22_OddWordAccessTraps ==
    OddWord(last) =>
       /\ last.res < 0
       /\ \E code \in 200..255 : Trapped(last, 4, code)

\* the access just made was a word write to the odd address above rl11.csr
OddCsrWrite(l) ==
    l.op = "access_iopage" /\ l.pa = \o17774401 /\ l.data >= 0 /\ l.byteFlag = 0

WritableBits(register) ==
    CASE register \in {\o17777406, \o17777410, \o17777412} -> \hFFFF
      [] register = \o17774402 -> \hFFFE
      [] register \in {\o17774404, \o17774406} -> \hFFFF
      [] register = \o17776702 -> \hFFFF
      [] register = \o17776704 -> \hFFFE
      [] register \in {\o17772524, \o17772526} -> \hFFFF
      [] register \in {\o17777546, \o17777560, \o17777550} -> \h40
      [] OTHER -> 0

\* the writable bits seen through an access form: the word, the low byte at
\* an even address or the high byte at an odd one
FormBits(pa, byteFlag) ==
    IF byteFlag = 0 THEN WritableBits(WordOf(pa))
    ELSE IF pa % 2 = 1 THEN Shr(WritableBits(WordOf(pa)), 8)
    ELSE And(WritableBits(WordOf(pa)), \hFF)

\* the access before the last wrote a writable register without a trap and
\* the last one read the same address in the same form
WriteThenRead(w, r) ==
    /\ w.op = "access_iopage" /\ w.data >= 0 /\ w.res >= 0
    /\ WritableBits(WordOf(w.pa)) # 0
    /\ r.op = "access_iopage" /\ r.data < 0
    /\ r.pa = w.pa /\ r.byteFlag = w.byteFlag

\* C24: for every writable I/O-page register and every byte or word access
\* form, a write of v followed at once by a read at the same address with
\* the same byte flag returns a value whose writable bits equal those of v.
C24_WriteReadSameBits ==
    [][WriteThenRead(last, last') =>
          And(last'.res, FormBits(last.pa, last.byteFlag))
             = And(last.data, FormBits(last.pa, last.byteFlag))]_vars

\* the receiver done bit of a unit
RcvDone(d) == And(d.rcsr, \h80) # 0

\* C25: dl11Input(unit, ch) called while the receiver done bit is set returns
\* 0 and leaves rbuf and rcsr unchanged; called while done is clear it stores
\* ch in rbuf, sets done and returns 1.  Consequently a received character
\* is not overwritten before the guest reads rbuf: rbuf changes only in a
\* step that finds done clear, and done is cleared only by a guest read of
\* rbuf or by RESET.
C25_InputKeepsUnreadCharacter ==
    [][/\ last'.op = "dl11Input" =>
             LET unit == last'.pa
             IN IF RcvDone(DL11[unit])
                THEN /\ last'.res = 0
                     /\ DL11'[unit] = DL11[unit]
                     /\ CPU' = CPU
                ELSE /\ last'.res = 1
                     /\ DL11'[unit].rbuf = last'.data
                     /\ DL11'[unit].rcsr = Or(DL11[unit].rcsr, \h80)
       /\ \A unit \in DOMAIN DL11 :
             /\ DL11'[unit].rbuf # DL11[unit].rbuf => ~RcvDone(DL11[unit])
             /\ (RcvDone(DL11[unit]) /\ ~RcvDone(DL11'[unit])) =>
                   \/ last'.op = "reset_iopage"
                   \/ /\ last'.op = "access_iopage" /\ last'.data < 0
                      /\ WordOf(last'.pa) = \o17777562]_vars

\* a second character has been typed while the first was unread, and was
\* rejected
C25_SecondCharacterRejected ==
    /\ last.op = "dl11Input" /\ last.res = 0
    /\ RcvDone(DL11[last.pa])
    /\ DL11[last.pa].rbuf \in DlChars
    /\ DL11[last.pa].rbuf # last.data

\* the registers of accessRP11 that belong to the selected drive
RpDriveRegisters ==
    {\o17776706, \o17776712, \o17776714, \o17776720, \o17776724, \o17776726,
     \o17776730, \o17776732, \o17776734, \o17776736, \o17776740, \o17776742,
     \o17776744, \o17776746}

\* the drive selected in CS2 has its DVA bit clear
RpNoDrive == And(rp11.rpds[rp11.rpcs2 % 8], \h100) = 0

\* C26: with an RP11 drive selected in CS2 whose DVA bit is clear, any access
\* to a per-drive register returns 0, changes no per-drive register, and
\* sets NED (CS2 bit 12) together with SC and TRE in CS1.
C26_AbsentDriveRegisters ==
    [][(/\ last'.op = "access_iopage"
        /\ WordOf(last'.pa) \in RpDriveRegisters
        /\ RpNoDrive)
          => /\ last'.res = 0
             /\ Names(last'.tr) = {}
             /\ rp11'.rpda = rp11.rpda /\ rp11'.rpds = rp11.rpds
             /\ rp11'.rper1 = rp11.rper1 /\ rp11'.rpof = rp11.rpof
             /\ rp11'.rpdc = rp11.rpdc /\ rp11'.rper3 = rp11.rper3
             /\ rp11'.rpcs2 = Or(rp11.rpcs2, \h1000)
             /\ rp11'.rpcs1 = Or(rp11.rpcs1, \hC000)
             /\ rp11'.rpwc = rp11.rpwc /\ rp11'.rpba = rp11.rpba]_vars

\* a drive register of drive 7, which does not exist, has been written
C26_AbsentDriveWritten ==
    /\ last.op = "access_iopage" /\ last.data > 0
    /\ WordOf(last.pa) \in RpDriveRegisters
    /\ rp11.rpcs2 % 8 = 7 /\ RpNoDrive
    /\ And(rp11.rpcs2, \h1000) # 0 /\ And(rp11.rpcs1, \hC000) = \hC000

\* the step taken is the completion of the block request of drive m with a
\* status that extractXHR does not accept
FetchFailed(l, m) ==
    /\ l.op = "getData" /\ l.pa \notin Accepted
    /\ m \in DOMAIN meta /\ meta[m].xhr.st = "pending"
    /\ FirstUnit(l) = m

\* C27: when a block fetch completes with a status other than 416, 200, 206
\* or 0, the suspended transfer ends with a single postProcess call carrying
\* err 1 and the saved position, address and count; the cache is unchanged
\* and no further memory or cache access is made.
C27_FailedFetchEndsTransfer ==
    [][\A m \in DOMAIN meta :
          FetchFailed(last', m) =>
             /\ last'.pp = << <<1, meta[m].xhr.position, meta[m].xhr.address,
                                meta[m].xhr.count>> >>
             /\ Names(last'.tr) \cap {"diskIO", "fetch"} = {}
             /\ m \in DOMAIN meta' => meta'[m].cache = meta[m].cache
             /\ mem' = mem]_vars

\* a fetch for a transfer with bytes left to move has failed with status 404
C27_FetchFailed ==
    /\ last.op = "getData" /\ last.pa = 404
    /\ Len(last.pp) = 1 /\ last.pp[1][1] = 1 /\ last.pp[1][4] > 0

\* <<operation, position, address, count>> of the diskIO call made in the
\* step that leads to l: the call of the guest, or the call getData makes
\* with the values saved in the request
CallOf(l) ==
    IF l.op = "diskIO" THEN l.pa
    ELSE <<meta[IOM].xhr.operation, meta[IOM].xhr.position,
           meta[IOM].xhr.address, meta[IOM].xhr.count>>

\* the cache the diskIO call of the step starts from: the cache of the
\* image, with the response installed when the step is a completion
CacheBefore(l) ==
    IF l.op = "getData"
    THEN LET block == Trunc(meta[IOM].xhr.position, IO_BLOCKSIZE)
         IN extractXHR(l.tr[1][4], ImageBlock(block), meta[IOM].cache, block).cache
    ELSE IF IOM \in DOMAIN meta THEN meta[IOM].cache ELSE << >>

\* the word at address a is outside memory
NoMemory(a) == (a \div 2) \notin DOMAIN mem

\* byte a of memory after the step
MemByteAfter(a) ==
    IF a % 2 = 0 THEN mem'[a \div 2] % 256 ELSE mem'[a \div 2] \div 256

\* C28: when a memory access in ops 1, 2 or 3 returns a negative value,
\* diskIO stops at once and calls postProcess exactly once with err 2 and the
\* position, address and residual count of the faulting word; every word
\* before it has been transferred in full and nothing after it is touched.
C28_MemoryFaultStopsTransfer ==
    [][last'.op \in {"diskIO", "getData"} =>
          LET call  == CallOf(last')
              c     == CacheBefore(last')
              fault == \E i \in DOMAIN last'.pp : last'.pp[i][1] = 2
              moved == last'.pp[1][3] - call[3]
          IN /\ (/\ call[4] > 0 /\ NoMemory(call[3])
                 /\ Trunc(call[2], IO_BLOCKSIZE) \in DOMAIN meta'[IOM].cache
                 /\ "fetch" \notin Names(last'.tr)) => fault
             /\ fault =>
                   /\ Len(last'.pp) = 1
                   /\ NoMemory(last'.pp[1][3])
                   /\ moved >= 0 /\ moved % 2 = 0 /\ moved < call[4]
                   /\ last'.pp[1][2] = call[2] + moved
                   /\ last'.pp[1][4] = call[4] - moved
                   /\ "fetch" \notin Names(last'.tr)
                   /\ meta'[IOM].xhr.st # "pending"
                   /\ \A a \in 0..(2 * MemWords - 1) :
                         MemByteAfter(a) =
                            IF call[1] = 2 /\ a >= call[3] /\ a < call[3] + moved
                            THEN ImageByte(meta'[IOM].cache, call[2] + (a - call[3]))
                            ELSE MemByte(a)
                   /\ DOMAIN meta'[IOM].cache = DOMAIN c
                   /\ \A b \in DOMAIN c, k \in 0..(IO_BLOCKSIZE - 1) :
                         LET p == b * IO_BLOCKSIZE + k
                         IN ImageByte(meta'[IOM].cache, p) =
                               IF call[1] = 1 /\ p >= call[2] /\ p < call[2] + moved
                               THEN MemByte(call[3] + (p - call[2]))
                               ELSE ImageByte(c, p)]_vars

\* a transfer of several words has faulted after its first word was moved
C28_FaultAfterFirstWord ==
    /\ last.op \in {"diskIO", "getData"}
    /\ Len(last.pp) = 1 /\ last.pp[1][1] = 2
    /\ last.pp[1][4] > 0 /\ last.pp[1][4] < last.pa[4]

\* the blocks a response of len bytes covers from block 0 on; the loop of
\* extractXHR runs once even for an empty response
Covered(len) ==
    {0} \cup {b \in 0..len : b * IO_BLOCKSIZE < len}

\* the bytes of the response in the window of block b, zero padded
Window(resp, b) == FilledBlock(resp, b * IO_BLOCKSIZE)

\* C29: on a 200 response extractXHR ignores the requested block index and
\* installs the response from block 0 upward: every absent covered block is
\* created with the response bytes of its own window (zero padded), every
\* present block is skipped with the source cursor advanced by one block.
C29_WholeFileFromBlockZero ==
    [][(last'.op = "extractXHR" /\ last'.pa = 200) =>
          LET before == IF XM \in DOMAIN meta THEN meta[XM].cache ELSE << >>
              after  == meta'[XM].cache
              len    == last'.byteFlag
          IN /\ last'.res = 0
             /\ DOMAIN after = DOMAIN before \cup Covered(len)
             /\ \E v \in BodyValues :
                   \A b \in DOMAIN after :
                      after[b] = IF b \in DOMAIN before THEN before[b]
                                 ELSE Window(Body(len, v), b)]_vars

\* a whole-file response of more than a block has arrived for a request of
\* block 1 while block 0 was present with other bytes: block 1 holds the
\* second window of the response, zero padded
C29_SecondWindowInstalled ==
    /\ last.op = "extractXHR" /\ last.pa = 200 /\ last.data = 1
    /\ last.byteFlag = IO_BLOCKSIZE + 2
    /\ DOMAIN meta[XM].cache = {0, 1}
    /\ meta[XM].cache[0][1] = 1
    /\ meta[XM].cache[1] = Window(Body(IO_BLOCKSIZE + 2, 2), 1)

\* the RL11 is ready: bit 7 of csr is set
RlReady == And(rl11.csr, \h80) # 0

\* C30: every RL11 function started by a CSR write eventually leaves csr
\* bit 7 set again, whether IE is set or clear, provided the pending fetches
\* complete and the interrupt collaborator runs the callback it is given in
\* its callback argument.
C30_RlFunctionCompletes == (~RlReady) ~> RlReady


\* the block a completing request of unit m had asked for
RequestedBlock(m) == Trunc(meta[m].xhr.position, IO_BLOCKSIZE)

\* C35: whenever a block request completes with a status extractXHR accepts
\* (416, 200, 206 or 0), the block that diskIO had requested is in the cache
\* afterwards, so that the resumed transfer does not request it again.
C35_FetchedBlockPresent ==
    [][(/\ last'.op = "getData"
        /\ last'.pa \in Accepted
        /\ FirstUnit(last') \in DOMAIN meta')
       => /\ RequestedBlock(FirstUnit(last'))
               \in DOMAIN meta'[FirstUnit(last')].cache
          /\ ~(/\ meta'[FirstUnit(last')].xhr.st = "pending"
               /\ Trunc(meta'[FirstUnit(last')].xhr.position, IO_BLOCKSIZE)
                    = RequestedBlock(FirstUnit(last')))]_vars

\* the unit selected by mtc bits 8-9
SelectedTape == <<"tm", Shr(tm11.mtc, 8) % 4>>

\* the position of the selected unit; tm11_go gives a unit position 0 when
\* it creates its metadata with the first command
SelectedTapePosition ==
    IF SelectedTape \in DOMAIN meta THEN meta[SelectedTape].position ELSE 0

\* C32: every read of mts returns BOT (bit 5) set exactly when the position
\* of the unit selected by mtc bits 8-9 is zero, a unit that has not had a
\* command yet included.
C32_BotAtPositionZero ==
    [][(/\ last'.op = "access_iopage"
        /\ last'.pa = \o17772520
        /\ last'.data < 0
        /\ last'.byteFlag = 0)
       => (And(last'.res, \h20) # 0 <=> SelectedTapePosition = 0)]_vars

\* a space-forward or space-reverse command of drive 0 is under way
SpaceBusy ==
    /\ meta[TapeM].command \in {4, 5}
    /\ And(tm11.mtc, \h80) = 0

\* C31: a space-forward or space-reverse command terminates when the block
\* requests it makes are answered: it traverses one record per step, adds one
\* to mtbrc for each, and completes when mtbrc reaches 0, at a tape mark or,
\* in reverse, at position 0.
C31_SpaceTerminates == SpaceBusy ~> ~SpaceBusy

\* the cached image c holds a record of len bytes at position p: its length
\* word, the data padded to even, and the length word again
RecordAt(c, p, len) ==
    /\ \A k \in 0..(len + (len % 2) + 7) : Trunc(p + k, IO_BLOCKSIZE) \in DOMAIN c
    /\ ImageByte(c, p) = len /\ ImageByte(c, p + 4 + len + (len % 2)) = len
    /\ \A k \in 1..3 : /\ ImageByte(c, p + k) = 0
                       /\ ImageByte(c, p + 4 + len + (len % 2) + k) = 0

\* the step just taken wrote function fn with go to mtc through the I/O
\* page while the controller was ready and no request was pending
SpaceGo(l, fn) ==
    /\ IsWrite(l, "access_iopage", \o17772522)
    /\ Shr(l.data, 1) % 8 = fn /\ l.data % 2 = 1
    /\ And(tm11.mtc, \h80) # 0
    /\ meta[TapeM].xhr.st # "pending"

\* the position behind the record of len bytes that starts at p
BehindRecord(p, len) == p + 8 + len + (len % 2)

\* C37: with the unit at the start of a data record of any length L >= 1, a
\* space-forward over one record takes the position behind the record, and a
\* space-reverse over one record from there takes it back to the start.
C37_SpaceForwardThenReverse ==
    [][\A p \in 0..Len(SpaceTape), len \in 1..4 :
          (RecordAt(meta[TapeM].cache, p, len) /\ tm11.mtbrc = \hFFFF)
          => /\ (SpaceGo(last', 4) /\ meta[TapeM].position = p)
                => meta'[TapeM].position = BehindRecord(p, len)
             /\ (SpaceGo(last', 5) /\ meta[TapeM].position = BehindRecord(p, len))
                => meta'[TapeM].position = p]_vars

\* the step just taken wrote prs with GO set
PtrGoWrite(l) ==
    /\ l.op = "accessPTR11" /\ And(l.pa, 6) = 0
    /\ l.data > 0
    /\ Written(l, ptr11.prs) >= 0 /\ Written(l, ptr11.prs) % 2 = 1

\* the op-5 transfers started in the handler whose trace is tr
PtrStarted(tr) ==
    {i \in DOMAIN tr : tr[i][1] = "diskIO" /\ tr[i][2] = "ptr" /\ tr[i][4] = 5}

\* the completions of PTR transfers reported in the trace tr, by their err
PtrEnded(tr) ==
    {tr[i][4] : i \in {j \in DOMAIN tr : tr[j][1] = "postProcess"
                                             /\ tr[j][2] = "ptr"}}

PtrInterrupt(q) == \E e \in q : e.vector = \o70

\* C33: a write to prs with GO set starts exactly one op-5 transfer when
\* neither ERROR nor BUSY is set and none otherwise; while the transfer is in
\* flight BUSY is set and DONE is clear; its completion clears BUSY and sets
\* DONE on success or ERROR on a fetch failure, and requests an interrupt at
\* vector 0o70 only if IE is set.
C33_PtrTransfer ==
    [][/\ PtrGoWrite(last')
          => Cardinality(PtrStarted(last'.tr))
               = IF And(ptr11.prs, \h8800) = 0 THEN 1 ELSE 0
       /\ (last'.op = "accessPTR11" /\ ~PtrGoWrite(last'))
          => PtrStarted(last'.tr) = {}
       /\ \A m \in DOMAIN inflight' :
             (m[1] = "ptr" /\ inflight'[m] > 0)
             => And(ptr11'.prs, \h800) # 0 /\ And(ptr11'.prs, \h80) = 0
       /\ PtrEnded(last'.tr) # {}
          => /\ And(ptr11'.prs, \h800) = 0
             /\ PtrEnded(last'.tr) = {0} => And(ptr11'.prs, \h8080) = \h80
             /\ PtrEnded(last'.tr) = {1} => And(ptr11'.prs, \h8000) # 0
             /\ And(ptr11'.prs, \h40) = 0
                => CPU'.interruptQueue = CPU.interruptQueue
             /\ And(ptr11'.prs, \h40) # 0
                => PtrInterrupt(CPU'.interruptQueue)]_vars

\* the go routine of controller dev ran in the step just taken, for a read or
\* a write of the drive
RangeGo(l, dev, drive) ==
    /\ Len(l.tr) > 0
    /\ \E i \in DOMAIN l.tr :
          /\ l.tr[i][1] = dev \o "11_go"
          /\ l.tr[i][2] = dev /\ l.tr[i][3] = drive
          /\ l.tr[i][4] \in (CASE dev = "rk" -> {1, 2}
                               [] dev = "rl" -> {5, 6, 7}
                               [] OTHER -> {\o61, \o71})

\* the disk address registers name a cylinder, surface or sector that the
\* drive does not have
RkOutOfRange(drive) ==
    /\ RK_TRACKS[drive + 1] # 0
    /\ \/ Shr(rk11.rkda, 4) % 512 >= RK_TRACKS[drive + 1]
       \/ rk11.rkda % 16 >= RK_SECTORS[drive + 1]

RlOutOfRange(drive) ==
    \/ Shr(rl11.dar, 6) >= RL_TRACKS[drive + 1]
    \/ rl11.dar % 64 >= RL_SECTORS[drive + 1]

RpOutOfRange(drive) ==
    \/ rp11.rpdc[drive] >= RP_CYLINDERS[drive + 1]
    \/ Shr(rp11.rpda[drive], 8) >= RP_SURFACES[drive + 1]
    \/ rp11.rpda[drive] % 256 >= RP_SECTORS[drive + 1]

\* the step started no transfer and left the caches and memory alone
NoTransfer ==
    /\ "diskIO" \notin Names(last'.tr)
    /\ mem' = mem
    /\ \A m \in DOMAIN meta' :
          meta'[m].cache = IF m \in DOMAIN meta THEN meta[m].cache ELSE << >>

\* the completion of the command is under way: the ready bit is set or the
\* callback that sets it is queued
Completing(ready, q, callback) ==
    ready \/ \E e \in q : e.callback = callback

\* C34: on the RK11, the RL11 and the RP11 a read or write whose disk address
\* is out of range for the selected drive makes no diskIO call and changes
\* neither cache nor memory; it sets the error bit of the device (NXC or NXS
\* in rker, HNF in csr, invalid address in rper1 with SC and TRE) and the
\* command still completes.
C34_OutOfRangeAddress ==
    [][/\ \A drive \in 0..7 :
            (RangeGo(last', "rk", drive) /\ Shr(rk11.rkda, 13) % 8 = drive
             /\ RkOutOfRange(drive))
            => /\ NoTransfer
               /\ And(rk11'.rker, \h60) # 0
               /\ Completing(And(rk11'.rkcs, \h80) # 0, CPU'.interruptQueue,
                             "rk11_commandEnd")
       /\ \A drive \in 0..3 :
            (RangeGo(last', "rl", drive) /\ RlOutOfRange(drive))
            => /\ NoTransfer
               /\ And(rl11'.csr, \h1000) # 0
               /\ Completing(And(rl11'.csr, \h80) # 0, CPU'.interruptQueue,
                             "rl11_commandEnd")
       /\ \A drive \in 0..7 :
            (RangeGo(last', "rp", drive) /\ RpOutOfRange(drive))
            => /\ NoTransfer
               /\ And(rp11'.rper1[drive], \h400) # 0
               /\ And(rp11'.rpcs1, \hC000) = \hC000
               /\ Completing(And(rp11'.rpcs1, \h80) # 0, CPU'.interruptQueue,
                             "rp11_end_ready")]_vars

\* what rk11_go acts on: function, drive and disk address, word count, bus
\* address with its extension bits
RkCommand(r) ==
    <<Shr(r.rkcs, 1) % 8, r.rkda, r.rkwc, r.rkba, And(r.rkcs, \h30)>>

\* C36: the function, drive, disk address, word count and bus address that
\* the deferred rk11_go acts on are those of the go write: a register write
\* of the guest between the go write and the run of rk11_go changes none of
\* them.
C36_GoCommandLatched ==
    [][(timers.rk11_go > 0 /\ last'.op = "accessRK11")
       => RkCommand(rk11') = RkCommand(rk11)]_vars

\* the step just taken read the word at 017776700 (CS1)
Cs1Read(l) ==
    l.op = "accessRP11" /\ WordOf(l.pa) = \o17776700 /\ l.data < 0

\* C38: a read of RP11 CS1 leaves the stored ready bit (bit 7) of rpcs1 as it
\* was, whatever drive CS2 selects, so that a later go write is not ignored
\* because of the read.
C38_Cs1ReadKeepsReady ==
    [][Cs1Read(last') => And(rp11'.rpcs1, \h80) = And(rp11.rpcs1, \h80)]_vars

\* C39: on the step where an accepted RK11 transfer reaches rk11_end, rkda bits
\* 13-15 are the same after the step as before it and still name the drive
\* of the transfer: the cylinder written back fits its 9-bit field.
C39_DriveSelectKept ==
    [][\A d \in RkCompleted(last') :
          /\ And(rk11'.rkda, \hE000) = And(rk11.rkda, \hE000)
          /\ Shr(rk11'.rkda, 13) = d]_vars

\* 256 words read from the last sector of drive 3 (cylinder 405, sector 11)
\* have ended at cylinder 406, sector 0, past the last track
C39_PastLastTrack ==
    /\ last.op = "rk11_go"
    /\ 3 \in RkCompleted(last)
    /\ rk11.rkwc = 0
    /\ rk11.rkda = \h6000 + 406 * 16

\* C40: from the first reset_iopage on, whatever RESETs and timer tasks
\* follow, exactly one kw11_interrupt task is pending; before it there is
\* none.
C40_OneKw11Timer ==
    [](last.op = "reset_iopage" => [](timers.kw11 = 1 /\ kw11.timerId # 0))

\* a timer task has run after a reset and left one task pending
C40_TickAfterReset ==
    /\ last.op = "kw11_interrupt"
    /\ kw11.timerId # 0
    /\ timers.kw11 = 1

====
